---- MODULE Spec2Model ----
(***************************************************************************)
(* The serving controller of the tablet server                             *)
(* (go/vt/tabletserver/tabletserver.go): the state machine guarded by      *)
(* tsv.mu, request admission (startRequest / endRequest) over the two      *)
(* wait groups, the SetServingType / StopService / CheckMySQL lifecycle    *)
(* operations, and the sub-services they open and close.                   *)
(*                                                                         *)
(* Every action is one atomic section of the code: either a critical       *)
(* section of tsv.mu, or a stretch of a long operation that runs with the  *)
(* mutex released.  Controller calls run on the threads of Threads; the    *)
(* goroutine started by CheckMySQL is the thread Probe.                    *)
(***************************************************************************)
EXTENDS Integers, FiniteSets, Sequences, TLC

\* ---------------------------------------------------------------- bounds
\* Number of callers that may be inside a long controller operation together
\* (calls that return at once occupy no caller slot).
NumCtl == 1
\* Number of admitted client requests that may be in flight together.
MaxInflight == 2
\* the number of StreamHealth calls, and of BroadcastHealth calls
MaxStreams == 2
MaxBroadcasts == 12
MaxStreamBroadcasts == 3
MaxSnapshots == 1
\* lg.retryCount of the gateway
MaxRetryCount == 2
ScenarioBroadcasts == 20
\* the number of queries of an ExecuteBatch call
MaxQueries == 2
\* the number of bind variables of a request
MaxBindVars == 2
\* the number of requests made through execRequest
MaxExecRequests == 2
\* the largest query timeout, in units of time
MaxQueryTimeout == 1
\* the largest split count and number of rows per query part
MaxSplitCount == 2
\* the largest count of a NEXTVAL request, the largest cache of a sequence,
\* and the value of next_id at which the requests stop
MaxNextvalCount == 4
MaxCache == 3
MaxNextId == 12

\* The buffer of a subscriber's channel: make(chan, 10).
StreamHealthBuffer == 10
\* sync2.NewSemaphore(1, 0): the slots of checkMySQLThrottler
CheckMySQLSlots == 1

\* ------------------------------------------------------- program constants
StateNotConnected == 0
StateNotServing == 1
StateServing == 2
StateTransitioning == 3
StateShuttingDown == 4

States ==
  {StateNotConnected, StateNotServing, StateServing, StateTransitioning,
   StateShuttingDown}

\* stateName[state], the externally visible names (names overlap).
stateName(s) ==
  CASE s = StateNotConnected -> "NOT_SERVING"
    [] s = StateNotServing -> "NOT_SERVING"
    [] s = StateServing -> "SERVING"
    [] s = StateTransitioning -> "NOT_SERVING"
    [] s = StateShuttingDown -> "SHUTTING_DOWN"

\* decideAction's results.
actionNone == "actionNone"
actionFullStart == "actionFullStart"
actionServeNewType == "actionServeNewType"
actionGracefulStop == "actionGracefulStop"

\* topodatapb.TabletType values that requests name; UNKNOWN is the zero
\* value.  ServedTypes are the types the controller is asked to serve.
TabletTypes == {"MASTER", "REPLICA", "RDONLY"}
ServedTypes == {"MASTER", "REPLICA"}
TabletType_UNKNOWN == "UNKNOWN"
TabletType_MASTER == "MASTER"

\* The keyspace and shard InitDBConfig is called with, and the ones that
\* clients put in a request's target.
InitKeyspace == "ks"
InitShard == "0"
Keyspaces == {"ks", "kx"}
Shards == {"0", "1"}

\* The zero value of querypb.Target, tsv.target before InitDBConfig.
ZeroTarget == [Keyspace |-> "", Shard |-> "", TabletType |-> TabletType_UNKNOWN]

\* A request's target: nil, or a pointer to a querypb.Target.
NilTarget == [Keyspace |-> "nil", Shard |-> "nil", TabletType |-> "nil"]
RequestTargets ==
  {NilTarget} \cup [Keyspace : Keyspaces, Shard : Shards, TabletType : TabletTypes]

\* The callers whose requests and results are recorded, as the target and
\* whether the context is process-local (localContext, as IsHealthy passes):
\* a nil target from a local and from a remote caller; from remote callers
\* every type in the keyspace and shard of InitDBConfig, another keyspace and
\* another shard; and a local caller that names a target.
ServedTarget(tabletType) ==
  [Keyspace |-> "ks", Shard |-> "0", TabletType |-> tabletType]

RecordedCallers ==
  {[target |-> NilTarget, local |-> TRUE], [target |-> NilTarget, local |-> FALSE]}
    \cup {[target |-> ServedTarget(tt), local |-> FALSE] : tt \in TabletTypes}
    \cup {[target |-> [Keyspace |-> "kx", Shard |-> "0", TabletType |-> "MASTER"],
           local |-> FALSE],
          [target |-> [Keyspace |-> "ks", Shard |-> "1", TabletType |-> "MASTER"],
           local |-> FALSE],
          [target |-> ServedTarget("MASTER"), local |-> TRUE]}

\* The alsoAllow arguments SetServingType is called with (only membership
\* of the list is ever used, so a list is modelled by its set of elements).
AlsoAllowArgs == {{}, {"REPLICA"}}

\* vtrpcpb.ErrorCode values returned by the modelled operations.
OK == "OK"
QUERY_NOT_SERVED == "QUERY_NOT_SERVED"
BAD_INPUT == "BAD_INPUT"
INTERNAL_ERROR == "INTERNAL_ERROR"
UNKNOWN_ERROR == "UNKNOWN_ERROR"

\* The sub-services the controller opens and closes.
Services == {"qe", "te", "messager", "watcher", "txThrottler", "updateStreamList"}

\* The client entry points and the (isTx, allowOnShutdown) each one passes
\* to execRequest / startRequest.  Execute computes allowOnShutdown from
\* its transactionID argument.
ClientCalls ==
  { [op |-> "Begin", transactionID |-> 0],
    [op |-> "Commit", transactionID |-> 1],
    [op |-> "Execute", transactionID |-> 0],
    [op |-> "Execute", transactionID |-> 1] }

IsTx(call) == call.op \in {"Begin", "Commit"}

AllowOnShutdown(call) ==
  CASE call.op = "Begin" -> FALSE
    [] call.op = "Commit" -> TRUE
    [] call.op = "Execute" -> call.transactionID /= 0

\* ------------------------------------------------------------------ state
Probe == 0
Ctl == 1..NumCtl
Threads == Ctl \cup {Probe}
StreamCallers == 1..MaxStreams

VARIABLES
  state,        \* tsv.state
  target,       \* tsv.target
  alsoAllow,    \* tsv.alsoAllow
  requests,     \* tsv.requests (WaitGroup counter)
  txRequests,   \* tsv.txRequests (WaitGroup counter)
  open,         \* the sub-services that are open
  pc,           \* where each thread is in its controller call
  action,       \* the long operation each thread is running
  inflight,     \* admitted requests that have not ended, by isTx
  probeHolds,   \* the probe reserved a request slot (requests.Add(1))
  prevState,    \* history: the state before the last setState
  held,         \* history: the (role, state) pairs tsv held under mu
  observed,     \* history: the counters each thread's Wait calls returned on
  last,         \* history: the last startRequest and its result, if the
                \* controller has not taken a step since
  lameduck,     \* tsv.lameduck (an atomic integer, 0 or 1)
  dbconfigs,    \* tsv.dbconfigs and tsv.mysqld, as InitDBConfig recorded them
  entry,        \* history: the state, the role and the arguments each
                \* thread's running controller call started with
  ret,          \* history: the controller call that returned in the last
                \* step, and what it returned
  streamHealthMap,           \* tsv.streamHealthMap: id -> channel content
  streamHealthIndex,         \* tsv.streamHealthIndex
  lastStreamHealthResponse,  \* tsv.lastStreamHealthResponse
  bh,           \* the BroadcastHealth call in progress
  sh,           \* the StreamHealth calls
  batch,        \* the ExecuteBatch call in progress
  xr,           \* the execRequest call in progress, with its log statistics
  he,           \* the handleError call that returned last
  checkMySQLThrottler,  \* tsv.checkMySQLThrottler: the slots acquired
  QueryTimeout,  \* tsv.QueryTimeout, in units of time
  timeBomb,     \* the goroutine of setTimeBomb of each thread's call
  sq,           \* the SplitQuery closure that returned last
  nv,           \* the sequence of a NEXTVAL plan and the requests made on it
  wr            \* the withRetry call of the gateway

healthVars ==
  <<streamHealthMap, streamHealthIndex, lastStreamHealthResponse, bh, sh>>

\* The calls in progress outside the controller, and the throttler of
\* CheckMySQL.
pureVars == <<sq, nv, wr>>
callVars == <<batch, xr, he, checkMySQLThrottler, QueryTimeout, pureVars>>
execVars == <<callVars, timeBomb>>

coreVars ==
  <<state, target, alsoAllow, requests, txRequests, open, pc, action,
    inflight, probeHolds, prevState, held, observed, dbconfigs, entry>>

vars ==
  <<state, target, alsoAllow, requests, txRequests, open, pc, action,
    inflight, probeHolds, prevState, held, observed, last, lameduck,
    dbconfigs, entry, ret, healthVars, execVars>>

NoRequest == [call |-> [op |-> "none", transactionID |-> 0], target |-> NilTarget,
              local |-> FALSE, err |-> "none"]
NoObservation == [tx |-> FALSE, req |-> FALSE]
\* The history of the pairs that tsv.target.TabletType and tsv.state formed
\* under tsv.mu; NotHeld where the history is not kept.
NotHeld == {}
Holds(role, newState) ==
  IF held = NotHeld THEN held ELSE held \cup {<<role, newState>>}
NoDBConfigs == [dbconfigs |-> "", mysqld |-> ""]
NoEntry == [state |-> StateNotConnected, role |-> TabletType_UNKNOWN,
            tabletType |-> TabletType_UNKNOWN, serving |-> FALSE]
NoReturn == [op |-> "none", tabletType |-> TabletType_UNKNOWN,
             serving |-> FALSE, stateChanged |-> FALSE, err |-> "none",
             fromState |-> StateNotConnected, fromRole |-> TabletType_UNKNOWN,
             wasLameduck |-> 0]
\* The value ret keeps in the specifications that do not record returns.
NotRecorded == [NoReturn EXCEPT !.op = "not recorded"]
\* The histories ret and entry are written only where returns are recorded.
Recorded(r) == IF ret = NotRecorded THEN ret ELSE r
RecordedEntry(e) == IF ret = NotRecorded THEN entry ELSE e

\* No health response has been built yet (a nil pointer).
NilResponse == [Serial |-> 0, Target |-> NilTarget, Serving |-> FALSE]

\* The BroadcastHealth, resp. StreamHealth, call that is not running.
NoBroadcast == [pc |-> "idle", target |-> NilTarget, shr |-> NilResponse,
                todo |-> {}, count |-> 0]
NoStream == [pc |-> "idle", shr |-> NilResponse, id |-> -1, received |-> <<>>,
             res |-> "none", err |-> "none"]

\* The health fields after NewTabletServer: an empty map, index 0, no
\* last response.
HealthInit ==
  /\ streamHealthMap = <<>>
  /\ streamHealthIndex = 0
  /\ lastStreamHealthResponse = NilResponse
  /\ bh = NoBroadcast
  /\ sh = [c \in StreamCallers |-> NoStream]

\* No ExecuteBatch, execRequest or handleError call is running or has
\* returned.
NoBatch ==
  [pc |-> "idle", target |-> NilTarget, local |-> FALSE,
   asTransaction |-> FALSE, transactionID |-> 0, queries |-> 0,
   executed |-> 0, results |-> 0, tx |-> "none", begins |-> 0,
   err |-> "none"]
NoExec ==
  [pc |-> "idle", isTx |-> FALSE, res |-> "none", err |-> "none",
   logError |-> "none", sends |-> 0, released |-> 0, count |-> 0]
NoMessage == [text |-> "", fromBindVars |-> FALSE]
NoTabletError ==
  [isTabletError |-> FALSE, ErrorCode |-> "none", SQLError |-> 0,
   Message |-> NoMessage]
NoError ==
  [pc |-> "idle", path |-> "none", terse |-> FALSE, bindVariables |-> 0,
   err |-> NoTabletError, out |-> NoTabletError]

NoSplitQuery ==
  [pc |-> "idle", target |-> NilTarget, splitCount |-> 0,
   numRowsPerQueryPart |-> 0, algorithm |-> "EQUAL_SPLITS", err |-> "none",
   splitParams |-> "none"]
\* A sequence before its first request: the window is empty, and the row
\* of the sequence table holds next_id and cache.
NoSequence ==
  [pc |-> "idle", NextVal |-> 0, LastVal |-> 0, next_id |-> 1, cache |-> 1,
   n |-> 0, ret |-> 0, reads |-> 0, updates |-> 0, prevEnd |-> 0,
   prevNextId |-> 1]
\* No error (nil), and the withRetry call that has not started.
NilError == [kind |-> "nil", ServerCode |-> "none"]
NoRetry ==
  [pc |-> "idle", retryCount |-> 0, inTransaction |-> FALSE,
   isStreaming |-> FALSE, ctxDone |-> FALSE, i |-> 0, err |-> NilError,
   attempts |-> <<>>]

\* No goroutine of setTimeBomb is waiting.
NoTimeBomb == [pc |-> "none", timer |-> 0]

ExecInit ==
  /\ batch = NoBatch
  /\ xr = NoExec
  /\ he = NoError
  /\ checkMySQLThrottler = 0
  /\ timeBomb = [t \in Threads |-> NoTimeBomb]
  /\ sq = NoSplitQuery
  /\ nv = NoSequence
  /\ wr = NoRetry

\* The state after NewTabletServer.
NewTabletServer ==
  /\ state = StateNotConnected
  /\ target = ZeroTarget
  /\ alsoAllow = {}
  /\ requests = 0
  /\ txRequests = 0
  /\ open = {}
  /\ pc = [t \in Threads |-> "idle"]
  /\ action = [t \in Threads |-> actionNone]
  /\ inflight = [tx |-> 0, nontx |-> 0]
  /\ probeHolds = FALSE
  /\ prevState = StateNotConnected
  /\ observed = [t \in Threads |-> NoObservation]
  /\ last = NoRequest
  /\ lameduck = 0
  /\ dbconfigs = NoDBConfigs
  /\ entry = [t \in Threads |-> NoEntry]
  /\ HealthInit
  /\ ExecInit
  /\ QueryTimeout = 0

Init == NewTabletServer /\ ret = NotRecorded /\ held = NotHeld

\* ------------------------------------------------------------ controller
\* setState, and transition (which is setState under the mutex).
setState(newState) ==
  /\ state' = newState
  /\ prevState' = state
  /\ held' = Holds(target.TabletType, newState)

\* Where a thread goes when its controller call returns: the CheckMySQL
\* goroutine still sleeps one second and releases the throttler.
Returned(t) == IF t = Probe THEN "probeSleep" ELSE "idle"

\* EnterLameduck and ExitLameduck set the atomic flag.
EnterLameduck == lameduck' = 1
ExitLameduck_missing == lameduck' = lameduck
ExitLameduck == lameduck' = 0

\* A step inside a controller call or of the probe: no call returns, and
\* the step touches neither lameduck, the configuration nor the health
\* fields.
Internal ==
  /\ ret' = Recorded(NoReturn)
  /\ UNCHANGED <<lameduck, dbconfigs, entry, healthVars, execVars>>

\* setTimeBomb, as gracefulStop and StopService call it when they start:
\* its goroutine reads tsv.QueryTimeout; if that is zero it ends at once,
\* otherwise it waits for a timer of ten times the timeout or for done.
setTimeBomb(t) ==
  timeBomb' = IF QueryTimeout = 0
                THEN timeBomb
                ELSE [timeBomb EXCEPT ![t] = [pc |-> "select",
                                              timer |-> 10 * QueryTimeout]]

\* Mutation of closeTimeBomb: done is never closed.
closeTimeBomb_missing(t) == timeBomb' = timeBomb

\* The deferred close(done) of gracefulStop and StopService: the goroutine
\* of setTimeBomb stops its timer and ends.
closeTimeBomb(t) == timeBomb' = [timeBomb EXCEPT ![t] = NoTimeBomb]

\* What a return of SetServingType records: the deferred ExitLameduck runs,
\* and the call returns (stateChanged, err).
SetServingTypeReturn(tabletType, serving, stateChanged, err, fromState, fromRole) ==
  /\ ExitLameduck
  /\ ret' = Recorded([op |-> "SetServingType", tabletType |-> tabletType,
                       serving |-> serving, stateChanged |-> stateChanged,
                       err |-> err, fromState |-> fromState,
                       fromRole |-> fromRole,
                       wasLameduck |-> lameduck])

\* The return of the long operation that thread t ran for SetServingType.
SetServingTypeReturns(t, err) ==
  /\ SetServingTypeReturn(entry[t].tabletType, entry[t].serving, TRUE, err,
                          entry[t].state, entry[t].role)
  /\ entry' = RecordedEntry([entry EXCEPT ![t] = NoEntry])
  /\ UNCHANGED <<dbconfigs, healthVars, execVars>>

\* What a return of StopService records.
StopServiceReturn(fromState, fromRole) ==
  ret' = Recorded([op |-> "StopService", tabletType |-> TabletType_UNKNOWN,
                   serving |-> FALSE, stateChanged |-> FALSE, err |-> OK,
                   fromState |-> fromState, fromRole |-> fromRole,
                   wasLameduck |-> lameduck])

\* Mutation of InitDBConfig: the check of the state is missing.
InitDBConfig_noStateCheck(tabletType) ==
  /\ target' = [Keyspace |-> InitKeyspace, Shard |-> InitShard,
                TabletType |-> tabletType]
  /\ dbconfigs' = [dbconfigs |-> "dbconfigs", mysqld |-> "mysqld"]
  /\ ret' = Recorded([op |-> "InitDBConfig", tabletType |-> tabletType,
                       serving |-> FALSE, stateChanged |-> FALSE,
                       err |-> OK, fromState |-> state,
                       fromRole |-> target.TabletType,
                       wasLameduck |-> lameduck])
  /\ last' = NoRequest
  /\ UNCHANGED <<lameduck, entry, healthVars, execVars>>
  /\ UNCHANGED <<state, alsoAllow, requests, txRequests, open, pc, action,
                 inflight, probeHolds, prevState, held, observed>>

\* InitDBConfig: records the target only in StateNotConnected.
InitDBConfig(tabletType) ==
  /\ IF state /= StateNotConnected
       THEN UNCHANGED <<target, dbconfigs, held>>
       ELSE /\ target' = [Keyspace |-> InitKeyspace, Shard |-> InitShard,
                          TabletType |-> tabletType]
            /\ held' = Holds(tabletType, state)
            /\ dbconfigs' = [dbconfigs |-> "dbconfigs", mysqld |-> "mysqld"]
  /\ ret' = Recorded([op |-> "InitDBConfig", tabletType |-> tabletType,
                       serving |-> FALSE, stateChanged |-> FALSE,
                       err |-> IF state /= StateNotConnected
                                 THEN UNKNOWN_ERROR ELSE OK,
                       fromState |-> state, fromRole |-> target.TabletType,
                       wasLameduck |-> lameduck])
  /\ last' = NoRequest
  /\ UNCHANGED <<lameduck, entry, healthVars, execVars>>
  /\ UNCHANGED <<state, alsoAllow, requests, txRequests, open, pc, action,
                 inflight, probeHolds, prevState, observed>>

\* Mutations of decideAction.
\* A call in StateTransitioning or StateShuttingDown is not refused.
decideAction_noBusyCheck(tabletType, serving) ==
  IF target.TabletType = tabletType /\ serving /\ state = StateServing
    THEN [action |-> actionNone, err |-> OK, state |-> state,
          role |-> target.TabletType]
  ELSE CASE state = StateNotConnected /\ serving ->
              [action |-> actionFullStart, err |-> OK,
               state |-> StateTransitioning, role |-> tabletType]
         [] state = StateNotServing /\ serving ->
              [action |-> actionServeNewType, err |-> OK,
               state |-> StateTransitioning, role |-> tabletType]
         [] state = StateServing /\ ~serving ->
              [action |-> actionGracefulStop, err |-> OK,
               state |-> StateShuttingDown, role |-> tabletType]
         [] state = StateServing /\ serving ->
              [action |-> actionServeNewType, err |-> OK,
               state |-> StateTransitioning, role |-> tabletType]
         [] state \in {StateTransitioning, StateShuttingDown} ->
              [action |-> actionServeNewType, err |-> OK,
               state |-> StateTransitioning, role |-> tabletType]
         [] OTHER ->
              [action |-> actionNone, err |-> OK, state |-> state,
               role |-> tabletType]

\* The shortcut for a call that asks for what is already served is missing.
decideAction_noShortcut(tabletType, serving) ==
  IF FALSE
    THEN [action |-> actionNone, err |-> OK, state |-> state,
          role |-> target.TabletType]
  ELSE CASE state = StateNotConnected /\ serving ->
              [action |-> actionFullStart, err |-> OK,
               state |-> StateTransitioning, role |-> tabletType]
         [] state = StateNotServing /\ serving ->
              [action |-> actionServeNewType, err |-> OK,
               state |-> StateTransitioning, role |-> tabletType]
         [] state = StateServing /\ ~serving ->
              [action |-> actionGracefulStop, err |-> OK,
               state |-> StateShuttingDown, role |-> tabletType]
         [] state = StateServing /\ serving ->
              [action |-> actionServeNewType, err |-> OK,
               state |-> StateTransitioning, role |-> tabletType]
         [] state \in {StateTransitioning, StateShuttingDown} ->
              [action |-> actionNone, err |-> INTERNAL_ERROR, state |-> state,
               role |-> tabletType]
         [] OTHER ->
              [action |-> actionNone, err |-> OK, state |-> state,
               role |-> tabletType]

\* decideAction: the result as a record [action, err, state, role], computed
\* from the current state under the mutex.
decideAction(tabletType, serving) ==
  IF target.TabletType = tabletType /\ serving /\ state = StateServing
    THEN [action |-> actionNone, err |-> OK, state |-> state,
          role |-> target.TabletType]
  ELSE CASE state = StateNotConnected /\ serving ->
              [action |-> actionFullStart, err |-> OK,
               state |-> StateTransitioning, role |-> tabletType]
         [] state = StateNotServing /\ serving ->
              [action |-> actionServeNewType, err |-> OK,
               state |-> StateTransitioning, role |-> tabletType]
         [] state = StateServing /\ ~serving ->
              [action |-> actionGracefulStop, err |-> OK,
               state |-> StateShuttingDown, role |-> tabletType]
         [] state = StateServing /\ serving ->
              [action |-> actionServeNewType, err |-> OK,
               state |-> StateTransitioning, role |-> tabletType]
         [] state \in {StateTransitioning, StateShuttingDown} ->
              [action |-> actionNone, err |-> INTERNAL_ERROR, state |-> state,
               role |-> tabletType]
         [] OTHER ->
              [action |-> actionNone, err |-> OK, state |-> state,
               role |-> tabletType]

\* The pc a thread continues at after decideAction chose an action.
FirstStep(a) ==
  CASE a = actionFullStart -> "fullStart"
    [] a = actionServeNewType -> "serveNewType"
    [] a = actionGracefulStop -> "waitForShutdown"
    [] OTHER -> "idle"

\* SetServingType up to the return of decideAction.  With actionNone or an
\* error the call returns at once.  InitDBConfig must have been called
\* before SetServingType (the contract stated at InitDBConfig).
SetServingType(t, tabletType, serving, allow) ==
  /\ t \in Ctl
  /\ target /= ZeroTarget
  /\ LET d == decideAction(tabletType, serving) IN
       /\ d.action /= actionNone => pc[t] = "idle"
       /\ alsoAllow' = allow
       /\ target' = [target EXCEPT !.TabletType = d.role]
       /\ IF d.state /= state
            THEN state' = d.state /\ prevState' = state
            ELSE UNCHANGED <<state, prevState>>
       /\ held' = Holds(d.role, d.state)
       /\ IF d.action /= actionNone
            THEN /\ pc' = [pc EXCEPT ![t] = FirstStep(d.action)]
                 /\ action' = [action EXCEPT ![t] = d.action]
                 /\ entry' = RecordedEntry([entry EXCEPT ![t] =
                                [state |-> state, role |-> target.TabletType,
                                 tabletType |-> tabletType,
                                 serving |-> serving]])
                 /\ ret' = Recorded(NoReturn)
                 /\ UNCHANGED lameduck
            ELSE /\ SetServingTypeReturn(tabletType, serving, FALSE, d.err,
                                         state, target.TabletType)
                 /\ UNCHANGED <<pc, action, entry>>
       /\ IF d.action = actionGracefulStop THEN setTimeBomb(t)
                                            ELSE UNCHANGED timeBomb
  /\ UNCHANGED <<observed, dbconfigs, healthVars, callVars>>
  /\ last' = NoRequest
  /\ UNCHANGED <<requests, txRequests, open, inflight, probeHolds>>

\* fullStart up to its call of serveNewType: the connection test, qe.Open,
\* te.Init and updateStreamList.Init; any of the first three may fail, and
\* then SetServingType calls closeAll.
FullStartResults == {"connErr", "qeOpenErr", "teInitErr", "ok"}

fullStart(t, res) ==
  /\ pc[t] = "fullStart"
  /\ open' = CASE res \in {"connErr", "qeOpenErr"} -> open
               [] res = "teInitErr" -> open \cup {"qe"}
               [] res = "ok" -> open \cup {"qe", "updateStreamList"}
  /\ pc' = [pc EXCEPT ![t] = IF res = "ok" THEN "serveNewType" ELSE "closeAll"]
  /\ last' = NoRequest
  /\ Internal
  /\ UNCHANGED <<state, target, alsoAllow, requests, txRequests, action,
                 inflight, probeHolds, prevState, held, observed>>

\* serveNewType, first part: the role is read (without the mutex).  As
\* MASTER the tx throttler is opened, which may fail; otherwise the messager
\* is closed and the thread goes on to wait for txRequests.
serveNewTypeBegin(t, throttlerOk) ==
  /\ pc[t] = "serveNewType"
  /\ IF target.TabletType = TabletType_MASTER
       THEN IF throttlerOk
              THEN /\ open' = open \cup {"txThrottler"}
                   /\ pc' = [pc EXCEPT ![t] = "serveMaster"]
              ELSE /\ open' = open
                   /\ pc' = [pc EXCEPT ![t] = "closeAll"]
       ELSE /\ open' = open \ {"messager"}
            /\ pc' = [pc EXCEPT ![t] = "serveWaitTx"]
  /\ last' = NoRequest
  /\ Internal
  /\ UNCHANGED <<state, target, alsoAllow, requests, txRequests, action,
                 inflight, probeHolds, prevState, held, observed>>

\* serveNewType as MASTER: watcher.Close, te.Open, messager.Open and the
\* transition to StateServing.
serveNewTypeMaster(t) ==
  /\ pc[t] = "serveMaster"
  /\ open' = (open \ {"watcher"}) \cup {"te", "messager"}
  /\ setState(StateServing)
  /\ pc' = [pc EXCEPT ![t] = Returned(t)]
  /\ action' = [action EXCEPT ![t] = actionNone]
  /\ observed' = [observed EXCEPT ![t] = NoObservation]
  /\ last' = NoRequest
  /\ SetServingTypeReturns(t, OK)
  /\ UNCHANGED <<target, alsoAllow, requests, txRequests, inflight,
                 probeHolds>>

\* Mutation of txRequestsWait: the wait returns at once.
txRequestsWait_noWait == TRUE

\* txRequests.Wait() returns: the counter is zero.
txRequestsWait == txRequests = 0

\* Mutation of requestsWait: the wait returns at once.
requestsWait_noWait == TRUE

\* requests.Wait() returns: the counter is zero.
requestsWait == requests = 0

\* serveNewType as a non-master type: tsv.txRequests.Wait().
serveNewTypeWait(t) ==
  /\ pc[t] = "serveWaitTx"
  /\ txRequestsWait
  /\ observed' = [observed EXCEPT ![t].tx = (txRequests = 0)]
  /\ pc' = [pc EXCEPT ![t] = "serveClose"]
  /\ last' = NoRequest
  /\ Internal
  /\ UNCHANGED <<state, target, alsoAllow, requests, txRequests, open, action,
                 inflight, probeHolds, prevState, held>>

\* serveNewType as a non-master type, after the wait: te.Close(true),
\* watcher.Open, txThrottler.Close and the transition to StateServing.
serveNewTypeClose(t) ==
  /\ pc[t] = "serveClose"
  /\ open' = (open \ {"te", "txThrottler"}) \cup {"watcher"}
  /\ setState(StateServing)
  /\ pc' = [pc EXCEPT ![t] = Returned(t)]
  /\ action' = [action EXCEPT ![t] = actionNone]
  /\ observed' = [observed EXCEPT ![t] = NoObservation]
  /\ last' = NoRequest
  /\ SetServingTypeReturns(t, OK)
  /\ UNCHANGED <<target, alsoAllow, requests, txRequests, inflight,
                 probeHolds>>

\* closeAll, called when fullStart or serveNewType failed.
closeAll(t) ==
  /\ pc[t] = "closeAll"
  /\ open' = open \ {"messager", "te", "watcher", "updateStreamList", "qe",
                     "txThrottler"}
  /\ setState(StateNotConnected)
  /\ pc' = [pc EXCEPT ![t] = Returned(t)]
  /\ action' = [action EXCEPT ![t] = actionNone]
  /\ observed' = [observed EXCEPT ![t] = NoObservation]
  /\ last' = NoRequest
  /\ SetServingTypeReturns(t, "error")
  /\ UNCHANGED <<target, alsoAllow, requests, txRequests, inflight,
                 probeHolds>>

\* Mutation of StopServiceEnter: the check of the state is missing, so that
\* the shutdown is entered from any state.
StopServiceEnter_noStateCheck(t) ==
  /\ pc[t] \in {"idle", "probeStop"}
  /\ setState(StateShuttingDown)
  /\ pc' = [pc EXCEPT ![t] = "waitForShutdown"]
  /\ action' = [action EXCEPT ![t] = "StopService"]
  /\ entry' = RecordedEntry([entry EXCEPT ![t] =
                 [NoEntry EXCEPT !.state = state, !.role = target.TabletType]])
  /\ ret' = Recorded(NoReturn)
  /\ setTimeBomb(t)

\* StopService's critical section, run by thread t: nothing happens unless
\* the state is StateServing or StateNotServing.
StopServiceEnter(t) ==
  IF state /= StateServing /\ state /= StateNotServing
    THEN /\ pc' = [pc EXCEPT ![t] = IF t = Probe THEN "probeSleep" ELSE pc[t]]
         /\ StopServiceReturn(state, target.TabletType)
         /\ UNCHANGED <<state, prevState, held, action, entry, timeBomb>>
    ELSE /\ pc[t] \in {"idle", "probeStop"}
         /\ setState(StateShuttingDown)
         /\ pc' = [pc EXCEPT ![t] = "waitForShutdown"]
         /\ action' = [action EXCEPT ![t] = "StopService"]
         /\ entry' = RecordedEntry([entry EXCEPT ![t] =
                        [NoEntry EXCEPT !.state = state,
                                        !.role = target.TabletType]])
         /\ ret' = Recorded(NoReturn)
         /\ setTimeBomb(t)

\* StopService called by a controller thread.
StopService(t) ==
  /\ t \in Ctl
  /\ StopServiceEnter(t)
  /\ last' = NoRequest
  /\ UNCHANGED <<lameduck, dbconfigs, healthVars, callVars>>
  /\ UNCHANGED <<target, alsoAllow, requests, txRequests, open, inflight,
                 probeHolds, observed>>

\* waitForShutdown: messager.Close.
waitForShutdown(t) ==
  /\ pc[t] = "waitForShutdown"
  /\ open' = open \ {"messager"}
  /\ pc' = [pc EXCEPT ![t] = "drainWaitTx"]
  /\ last' = NoRequest
  /\ Internal
  /\ UNCHANGED <<state, target, alsoAllow, requests, txRequests, action,
                 inflight, probeHolds, prevState, held, observed>>

\* Mutation of drainWaitTx: waitForShutdown does not wait for txRequests.
drainWaitTx_noWait(t) ==
  /\ pc[t] = "drainWaitTx"
  /\ observed' = [observed EXCEPT ![t].tx = (txRequests = 0)]
  /\ pc' = [pc EXCEPT ![t] = "drainCloseTx"]
  /\ last' = NoRequest
  /\ Internal
  /\ UNCHANGED <<state, target, alsoAllow, requests, txRequests, open, action,
                 inflight, probeHolds, prevState, held>>

\* waitForShutdown: tsv.txRequests.Wait().
drainWaitTx(t) ==
  /\ pc[t] = "drainWaitTx"
  /\ txRequestsWait
  /\ observed' = [observed EXCEPT ![t].tx = (txRequests = 0)]
  /\ pc' = [pc EXCEPT ![t] = "drainCloseTx"]
  /\ last' = NoRequest
  /\ Internal
  /\ UNCHANGED <<state, target, alsoAllow, requests, txRequests, open, action,
                 inflight, probeHolds, prevState, held>>

\* waitForShutdown: te.Close(false), streamQList.TerminateAll,
\* updateStreamList.Stop and watcher.Close.
drainCloseTx(t) ==
  /\ pc[t] = "drainCloseTx"
  /\ open' = open \ {"te", "updateStreamList", "watcher"}
  /\ pc' = [pc EXCEPT ![t] = "drainWaitReq"]
  /\ last' = NoRequest
  /\ Internal
  /\ UNCHANGED <<state, target, alsoAllow, requests, txRequests, action,
                 inflight, probeHolds, prevState, held, observed>>

\* waitForShutdown: tsv.requests.Wait().
drainWaitReq(t) ==
  /\ pc[t] = "drainWaitReq"
  /\ requestsWait
  /\ observed' = [observed EXCEPT ![t].req = (requests = 0)]
  /\ pc' = [pc EXCEPT ![t] = "drainFinish"]
  /\ last' = NoRequest
  /\ Internal
  /\ UNCHANGED <<state, target, alsoAllow, requests, txRequests, open, action,
                 inflight, probeHolds, prevState, held>>

\* The end of waitForShutdown (txThrottler.Close) and what follows it:
\* in gracefulStop the transition to StateNotServing, in StopService
\* qe.Close and the transition to StateNotConnected.
drainFinish(t) ==
  /\ pc[t] = "drainFinish"
  /\ IF action[t] = actionGracefulStop
       THEN /\ open' = open \ {"txThrottler"}
            /\ setState(StateNotServing)
       ELSE /\ open' = open \ {"txThrottler", "qe"}
            /\ setState(StateNotConnected)
  /\ pc' = [pc EXCEPT ![t] = Returned(t)]
  /\ action' = [action EXCEPT ![t] = actionNone]
  /\ observed' = [observed EXCEPT ![t] = NoObservation]
  /\ last' = NoRequest
  /\ IF action[t] = actionGracefulStop
       THEN /\ SetServingTypeReturn(entry[t].tabletType, entry[t].serving,
                                    TRUE, OK, entry[t].state, entry[t].role)
            /\ entry' = RecordedEntry([entry EXCEPT ![t] = NoEntry])
            /\ UNCHANGED <<dbconfigs, healthVars, callVars>>
       ELSE /\ StopServiceReturn(entry[t].state, entry[t].role)
            /\ entry' = RecordedEntry([entry EXCEPT ![t] = NoEntry])
            /\ UNCHANGED <<lameduck, dbconfigs, healthVars, callVars>>
  /\ closeTimeBomb(t)
  /\ UNCHANGED <<target, alsoAllow, requests, txRequests, inflight,
                 probeHolds>>

\* ------------------------------------------------------------ CheckMySQL
\* CheckMySQL acquires the throttler and starts the goroutine, which runs
\* the critical section of isMySQLReachable: in StateServing it reserves a
\* request, in StateNotServing it switches to StateTransitioning, in any
\* other state it reports MySQL reachable.
\* Mutation of probeStart: in StateNotServing the probe does not switch to
\* StateTransitioning.
probeStart_keepsNotServing ==
  /\ CASE state = StateServing ->
            /\ requests' = requests + 1
            /\ probeHolds' = TRUE
            /\ pc' = [pc EXCEPT ![Probe] = "probeServing"]
            /\ UNCHANGED <<state, prevState, held>>
       [] state = StateNotServing ->
            /\ pc' = [pc EXCEPT ![Probe] = "probeNotServing"]
            /\ UNCHANGED <<state, prevState, held, requests, probeHolds>>
       [] OTHER ->
            /\ pc' = [pc EXCEPT ![Probe] = "probeSleep"]
            /\ UNCHANGED <<state, prevState, held, requests, probeHolds>>
  /\ last' = NoRequest
  /\ ret' = Recorded(NoReturn)
  /\ UNCHANGED <<lameduck, dbconfigs, entry, healthVars, batch, xr, he,
                 QueryTimeout, timeBomb, pureVars>>
  /\ UNCHANGED <<target, alsoAllow, txRequests, open, action, inflight,
                 observed>>

\* The goroutine CheckMySQL starts, up to the end of the critical section
\* of isMySQLReachable.
probeStart ==
  /\ CASE state = StateServing ->
            /\ requests' = requests + 1
            /\ probeHolds' = TRUE
            /\ pc' = [pc EXCEPT ![Probe] = "probeServing"]
            /\ UNCHANGED <<state, prevState, held>>
       [] state = StateNotServing ->
            /\ setState(StateTransitioning)
            /\ pc' = [pc EXCEPT ![Probe] = "probeNotServing"]
            /\ UNCHANGED <<requests, probeHolds>>
       [] OTHER ->
            /\ pc' = [pc EXCEPT ![Probe] = "probeSleep"]
            /\ UNCHANGED <<state, prevState, held, requests, probeHolds>>
  /\ last' = NoRequest
  /\ ret' = Recorded(NoReturn)
  /\ UNCHANGED <<lameduck, dbconfigs, entry, healthVars, batch, xr, he,
                 QueryTimeout, timeBomb, pureVars>>
  /\ UNCHANGED <<target, alsoAllow, txRequests, open, action, inflight,
                 observed>>

\* Mutation of CheckMySQL: the goroutine is started without TryAcquire.
CheckMySQL_noTryAcquire ==
  /\ checkMySQLThrottler' = checkMySQLThrottler + 1
  /\ probeStart

CheckMySQL ==
  IF checkMySQLThrottler = CheckMySQLSlots
    THEN UNCHANGED vars
    ELSE /\ pc[Probe] = "idle"
         /\ checkMySQLThrottler' = checkMySQLThrottler + 1
         /\ probeStart

\* Mutation of isMySQLReachable: the deferred transition back to
\* StateNotServing is missing.
isMySQLReachable_noRestore(reachable) ==
  /\ pc[Probe] \in {"probeServing", "probeNotServing"}
  /\ IF pc[Probe] = "probeServing"
       THEN /\ requests' = requests - 1
            /\ probeHolds' = FALSE
            /\ UNCHANGED <<state, prevState, held>>
       ELSE UNCHANGED <<state, prevState, held, requests, probeHolds>>
  /\ pc' = [pc EXCEPT ![Probe] = IF reachable THEN "probeSleep" ELSE "probeStop"]
  /\ last' = NoRequest
  /\ Internal
  /\ UNCHANGED <<target, alsoAllow, txRequests, open, action, inflight,
                 observed>>

\* isMySQLReachable returns what qe.IsMySQLReachable found; its deferred
\* calls give the reserved request back, or switch back to StateNotServing.
\* If MySQL is not reachable the goroutine goes on to call StopService.
isMySQLReachable(reachable) ==
  /\ pc[Probe] \in {"probeServing", "probeNotServing"}
  /\ IF pc[Probe] = "probeServing"
       THEN /\ requests' = requests - 1
            /\ probeHolds' = FALSE
            /\ UNCHANGED <<state, prevState, held>>
       ELSE /\ setState(StateNotServing)
            /\ UNCHANGED <<requests, probeHolds>>
  /\ pc' = [pc EXCEPT ![Probe] = IF reachable THEN "probeSleep" ELSE "probeStop"]
  /\ last' = NoRequest
  /\ Internal
  /\ UNCHANGED <<target, alsoAllow, txRequests, open, action, inflight,
                 observed>>

\* The goroutine's call of StopService.
probeStopService ==
  /\ pc[Probe] = "probeStop"
  /\ StopServiceEnter(Probe)
  /\ last' = NoRequest
  /\ UNCHANGED <<lameduck, dbconfigs, healthVars, callVars>>
  /\ UNCHANGED <<target, alsoAllow, requests, txRequests, open, inflight,
                 probeHolds, observed>>

\* The goroutine's deferred sleep and release of checkMySQLThrottler.
probeRelease ==
  /\ pc[Probe] = "probeSleep"
  /\ pc' = [pc EXCEPT ![Probe] = "idle"]
  /\ checkMySQLThrottler' = checkMySQLThrottler - 1
  /\ last' = NoRequest
  /\ ret' = Recorded(NoReturn)
  /\ UNCHANGED <<lameduck, dbconfigs, entry, healthVars, batch, xr, he,
                 QueryTimeout, timeBomb, pureVars>>
  /\ UNCHANGED <<state, target, alsoAllow, requests, txRequests, open, action,
                 inflight, probeHolds, prevState, held, observed>>

\* ----------------------------------------------------------- setTimeBomb
\* The timer of a waiting goroutine of setTimeBomb expires: log.Fatal ends
\* the process.
timeBombFires(t) ==
  /\ timeBomb[t].pc = "select"
  /\ timeBomb' = [timeBomb EXCEPT ![t].pc = "fatal"]
  /\ UNCHANGED <<coreVars, last, lameduck, ret, healthVars, callVars>>

\* The process was ended by log.Fatal.
Crashed == \E t \in Threads : timeBomb[t].pc = "fatal"

\* ------------------------------------------------------------- admission
\* Mutations of startRequest.
\* allowOnShutdown is not looked at: StateShuttingDown admits every request.
startRequest_ignoresAllowOnShutdown(tgt, isTx, allowOnShutdown, local) ==
  IF ~(state = StateServing \/ state = StateShuttingDown)
    THEN QUERY_NOT_SERVED
  ELSE IF tgt /= NilTarget
    THEN IF tgt.Keyspace /= target.Keyspace THEN QUERY_NOT_SERVED
         ELSE IF tgt.Shard /= target.Shard THEN QUERY_NOT_SERVED
         ELSE IF isTx /\ target.TabletType /= TabletType_MASTER
           THEN QUERY_NOT_SERVED
         ELSE IF tgt.TabletType /= target.TabletType
                 /\ tgt.TabletType \notin alsoAllow
           THEN QUERY_NOT_SERVED
         ELSE OK
  ELSE IF ~local THEN QUERY_NOT_SERVED
  ELSE OK

\* StateTransitioning is treated like StateServing.
startRequest_servesTransitioning(tgt, isTx, allowOnShutdown, local) ==
  IF ~(state \in {StateServing, StateTransitioning}
       \/ (allowOnShutdown /\ state = StateShuttingDown))
    THEN QUERY_NOT_SERVED
  ELSE IF tgt /= NilTarget
    THEN IF tgt.Keyspace /= target.Keyspace THEN QUERY_NOT_SERVED
         ELSE IF tgt.Shard /= target.Shard THEN QUERY_NOT_SERVED
         ELSE IF isTx /\ target.TabletType /= TabletType_MASTER
           THEN QUERY_NOT_SERVED
         ELSE IF tgt.TabletType /= target.TabletType
                 /\ tgt.TabletType \notin alsoAllow
           THEN QUERY_NOT_SERVED
         ELSE OK
  ELSE IF ~local THEN QUERY_NOT_SERVED
  ELSE OK

\* The check that a transactional request is served by a master is missing.
startRequest_noMasterCheck(tgt, isTx, allowOnShutdown, local) ==
  IF ~(state = StateServing \/ (allowOnShutdown /\ state = StateShuttingDown))
    THEN QUERY_NOT_SERVED
  ELSE IF tgt /= NilTarget
    THEN IF tgt.Keyspace /= target.Keyspace THEN QUERY_NOT_SERVED
         ELSE IF tgt.Shard /= target.Shard THEN QUERY_NOT_SERVED
         ELSE IF tgt.TabletType /= target.TabletType
                 /\ tgt.TabletType \notin alsoAllow
           THEN QUERY_NOT_SERVED
         ELSE OK
  ELSE IF ~local THEN QUERY_NOT_SERVED
  ELSE OK

\* The shard of the target is not compared.
startRequest_noShardCheck(tgt, isTx, allowOnShutdown, local) ==
  IF ~(state = StateServing \/ (allowOnShutdown /\ state = StateShuttingDown))
    THEN QUERY_NOT_SERVED
  ELSE IF tgt /= NilTarget
    THEN IF tgt.Keyspace /= target.Keyspace THEN QUERY_NOT_SERVED
         ELSE IF isTx /\ target.TabletType /= TabletType_MASTER
           THEN QUERY_NOT_SERVED
         ELSE IF tgt.TabletType /= target.TabletType
                 /\ tgt.TabletType \notin alsoAllow
           THEN QUERY_NOT_SERVED
         ELSE OK
  ELSE IF ~local THEN QUERY_NOT_SERVED
  ELSE OK

\* A nil target is accepted from every caller.
startRequest_acceptsNilTarget(tgt, isTx, allowOnShutdown, local) ==
  IF ~(state = StateServing \/ (allowOnShutdown /\ state = StateShuttingDown))
    THEN QUERY_NOT_SERVED
  ELSE IF tgt /= NilTarget
    THEN IF tgt.Keyspace /= target.Keyspace THEN QUERY_NOT_SERVED
         ELSE IF tgt.Shard /= target.Shard THEN QUERY_NOT_SERVED
         ELSE IF isTx /\ target.TabletType /= TabletType_MASTER
           THEN QUERY_NOT_SERVED
         ELSE IF tgt.TabletType /= target.TabletType
                 /\ tgt.TabletType \notin alsoAllow
           THEN QUERY_NOT_SERVED
         ELSE OK
  ELSE OK

\* The state is tested with IsServing, which is false in lameduck mode.
startRequest_checksIsServing(tgt, isTx, allowOnShutdown, local) ==
  IF ~((state = StateServing /\ lameduck = 0)
       \/ (allowOnShutdown /\ state = StateShuttingDown))
    THEN QUERY_NOT_SERVED
  ELSE IF tgt /= NilTarget
    THEN IF tgt.Keyspace /= target.Keyspace THEN QUERY_NOT_SERVED
         ELSE IF tgt.Shard /= target.Shard THEN QUERY_NOT_SERVED
         ELSE IF isTx /\ target.TabletType /= TabletType_MASTER
           THEN QUERY_NOT_SERVED
         ELSE IF tgt.TabletType /= target.TabletType
                 /\ tgt.TabletType \notin alsoAllow
           THEN QUERY_NOT_SERVED
         ELSE OK
  ELSE IF ~local THEN QUERY_NOT_SERVED
  ELSE OK

\* startRequest's result: OK, or the error code it fails with.
startRequest(tgt, isTx, allowOnShutdown, local) ==
  IF ~(state = StateServing \/ (allowOnShutdown /\ state = StateShuttingDown))
    THEN QUERY_NOT_SERVED
  ELSE IF tgt /= NilTarget
    THEN IF tgt.Keyspace /= target.Keyspace THEN QUERY_NOT_SERVED
         ELSE IF tgt.Shard /= target.Shard THEN QUERY_NOT_SERVED
         ELSE IF isTx /\ target.TabletType /= TabletType_MASTER
           THEN QUERY_NOT_SERVED
         ELSE IF tgt.TabletType /= target.TabletType
                 /\ tgt.TabletType \notin alsoAllow
           THEN QUERY_NOT_SERVED
         ELSE OK
  ELSE IF ~local THEN QUERY_NOT_SERVED
  ELSE OK

\* The counters after an admitted startRequest: requests.Add(1) and, if
\* isTx, txRequests.Add(1).
admit(isTx) ==
  /\ requests' = requests + 1
  /\ txRequests' = IF isTx THEN txRequests + 1 ELSE txRequests

\* Mutation of endRequest: txRequests.Done() is forgotten.
endRequest_forgetsTx(isTx) ==
  /\ requests' = requests - 1
  /\ txRequests' = txRequests

\* endRequest: requests.Done() and, if isTx, txRequests.Done().
endRequest(isTx) ==
  /\ requests' = requests - 1
  /\ txRequests' = IF isTx THEN txRequests - 1 ELSE txRequests

\* A client entry point up to the return of startRequest (execRequest, or
\* the direct calls in ExecuteBatch, execDML and UpdateStream).  With record
\* the request and its result are kept in the history variable last.
StartRequest(call, tgt, local, record) ==
  LET err == startRequest(tgt, IsTx(call), AllowOnShutdown(call), local) IN
  /\ err = OK => inflight.tx + inflight.nontx < MaxInflight
  /\ last' = IF record
               THEN [call |-> call, target |-> tgt, local |-> local, err |-> err]
               ELSE last
  /\ IF err = OK
       THEN /\ admit(IsTx(call))
            /\ inflight' = IF IsTx(call)
                             THEN [inflight EXCEPT !.tx = @ + 1]
                             ELSE [inflight EXCEPT !.nontx = @ + 1]
       ELSE UNCHANGED <<requests, txRequests, inflight>>
  /\ Internal
  /\ UNCHANGED <<state, target, alsoAllow, open, pc, action, probeHolds,
                 prevState, held, observed>>

\* The end of an admitted request: the deferred endRequest runs whether the
\* executed closure returned normally, returned an error or panicked.
ExecResults == {"ok", "error", "panic"}

EndRequest(isTx, res) ==
  /\ res \in ExecResults
  /\ IF isTx THEN inflight.tx > 0 ELSE inflight.nontx > 0
  /\ endRequest(isTx)
  /\ inflight' = IF isTx THEN [inflight EXCEPT !.tx = @ - 1]
                         ELSE [inflight EXCEPT !.nontx = @ - 1]
  /\ Internal
  /\ UNCHANGED <<state, target, alsoAllow, open, pc, action, probeHolds,
                 prevState, held, observed, last>>

\* -------------------------------------------------------------- lameduck
\* The calls of EnterLameduck and ExitLameduck.
EnterLameduckCall ==
  /\ EnterLameduck
  /\ ret' = Recorded(NoReturn)
  /\ UNCHANGED <<coreVars, last, healthVars, execVars>>

ExitLameduckCall ==
  /\ ExitLameduck
  /\ ret' = Recorded(NoReturn)
  /\ UNCHANGED <<coreVars, last, healthVars, execVars>>

\* GetState without the lameduck test.
GetState_ignoresLameduck == stateName(state)

\* GetState: NOT_SERVING in lameduck mode, else the name of the state.
GetState == IF lameduck /= 0 THEN "NOT_SERVING" ELSE stateName(state)

\* IsServing.
IsServing == GetState = "SERVING"

\* ------------------------------------------------------- health streaming
\* What a callback of StreamHealth returns.
CallbackResults == {"nil", "EOF", "error"}

\* A step of BroadcastHealth or StreamHealth: it is no request and no
\* controller call, and touches only the health fields.
HealthStep ==
  /\ last' = NoRequest
  /\ ret' = Recorded(NoReturn)
  /\ UNCHANGED <<coreVars, lameduck, execVars>>

\* streamHealthMutex is held by BroadcastHealth from its Lock to its return;
\* every other critical section is one step.
streamHealthMutexFree == bh.pc /= "send"

\* BroadcastHealth, first critical section: copies tsv.target under mu.
BroadcastHealth ==
  /\ bh.pc = "idle"
  /\ bh' = [bh EXCEPT !.pc = "IsServing", !.target = target]
  /\ UNCHANGED <<streamHealthMap, streamHealthIndex,
                 lastStreamHealthResponse, sh>>
  /\ HealthStep

\* BroadcastHealth builds the response: Serving is IsServing() at this
\* moment.  Serial stands for the address of the new response.
BroadcastHealthBuild ==
  /\ bh.pc = "IsServing"
  /\ bh' = [bh EXCEPT !.pc = "Lock", !.count = bh.count + 1,
                      !.shr = [Serial |-> bh.count + 1,
                               Target |-> bh.target,
                               Serving |-> IsServing]]
  /\ UNCHANGED <<streamHealthMap, streamHealthIndex,
                 lastStreamHealthResponse, sh>>
  /\ HealthStep

\* BroadcastHealth locks streamHealthMutex and starts to range over the
\* map.
BroadcastHealthLock ==
  /\ bh.pc = "Lock"
  /\ bh' = [bh EXCEPT !.pc = "send", !.todo = DOMAIN streamHealthMap]
  /\ UNCHANGED <<streamHealthMap, streamHealthIndex,
                 lastStreamHealthResponse, sh>>
  /\ HealthStep

\* The send blocks while the channel is full.
BroadcastHealthSend_blocking(id) ==
  /\ bh.pc = "send"
  /\ id \in bh.todo
  /\ Len(streamHealthMap[id]) < StreamHealthBuffer
  /\ streamHealthMap' =
       [streamHealthMap EXCEPT ![id] = Append(streamHealthMap[id], bh.shr)]
  /\ bh' = [bh EXCEPT !.todo = bh.todo \ {id}]
  /\ UNCHANGED <<streamHealthIndex, lastStreamHealthResponse, sh>>
  /\ HealthStep

\* The channel takes the response whatever it holds.
BroadcastHealthSend_unbounded(id) ==
  /\ bh.pc = "send"
  /\ id \in bh.todo
  /\ streamHealthMap' =
       [streamHealthMap EXCEPT ![id] = Append(streamHealthMap[id], bh.shr)]
  /\ bh' = [bh EXCEPT !.todo = bh.todo \ {id}]
  /\ UNCHANGED <<streamHealthIndex, lastStreamHealthResponse, sh>>
  /\ HealthStep

\* One iteration of the range: select { case c <- shr: default: }.
BroadcastHealthSend(id) ==
  /\ bh.pc = "send"
  /\ id \in bh.todo
  /\ streamHealthMap' =
       IF Len(streamHealthMap[id]) < StreamHealthBuffer
         THEN [streamHealthMap EXCEPT
                 ![id] = Append(streamHealthMap[id], bh.shr)]
         ELSE streamHealthMap
  /\ bh' = [bh EXCEPT !.todo = bh.todo \ {id}]
  /\ UNCHANGED <<streamHealthIndex, lastStreamHealthResponse, sh>>
  /\ HealthStep

\* The response becomes the last one only if no channel dropped it.
BroadcastHealthStore_unlessDropped ==
  /\ bh.pc = "send"
  /\ bh.todo = {}
  /\ lastStreamHealthResponse' =
       IF \A id \in DOMAIN streamHealthMap :
             /\ streamHealthMap[id] /= <<>>
             /\ streamHealthMap[id][Len(streamHealthMap[id])] = bh.shr
         THEN bh.shr
         ELSE lastStreamHealthResponse
  /\ bh' = [bh EXCEPT !.pc = "idle"]
  /\ UNCHANGED <<streamHealthMap, streamHealthIndex, sh>>
  /\ HealthStep

\* After the range: the response becomes the last one, and the deferred
\* Unlock runs.
BroadcastHealthStore ==
  /\ bh.pc = "send"
  /\ bh.todo = {}
  /\ lastStreamHealthResponse' = bh.shr
  /\ bh' = [bh EXCEPT !.pc = "idle"]
  /\ UNCHANGED <<streamHealthMap, streamHealthIndex, sh>>
  /\ HealthStep

\* The responses a StreamHealth call has passed to its callback, kept
\* where returns are recorded, as is the result of the last callback (res).
Delivered(c, shr) ==
  IF ret = NotRecorded THEN sh[c].received ELSE Append(sh[c].received, shr)

\* io.EOF is returned like any other error.
AfterCallback_returnsEOF(c, shr, res, next, stop) ==
  [sh[c] EXCEPT !.pc = IF res = "nil" THEN next ELSE stop,
                !.shr = NilResponse,
                !.received = Delivered(c, shr),
                !.res = IF ret = NotRecorded THEN sh[c].res ELSE res,
                !.err = IF res = "nil" THEN "none" ELSE "error"]

\* Where StreamHealth goes after callback returned res, before it has
\* subscribed (next = "Register", or "returned") and after (next =
\* "streaming", or "Unregister"); io.EOF is returned as nil.  The local
\* shr is not read again before it is assigned.
AfterCallback(c, shr, res, next, stop) ==
  [sh[c] EXCEPT !.pc = IF res = "nil" THEN next ELSE stop,
                !.shr = NilResponse,
                !.received = Delivered(c, shr),
                !.res = IF ret = NotRecorded THEN sh[c].res ELSE res,
                !.err = IF res = "error" THEN "error" ELSE "none"]

\* StreamHealth: reads lastStreamHealthResponse under streamHealthMutex.
StreamHealth(c) ==
  /\ sh[c].pc = "idle"
  /\ streamHealthMutexFree
  /\ sh' = [sh EXCEPT ![c] = [NoStream EXCEPT
                                !.pc = "first",
                                !.shr = lastStreamHealthResponse,
                                !.received = sh[c].received]]
  /\ UNCHANGED <<streamHealthMap, streamHealthIndex,
                 lastStreamHealthResponse, bh>>
  /\ HealthStep

\* The current state is sent immediately if there is one.
StreamHealthFirst(c, res) ==
  /\ sh[c].pc = "first"
  /\ sh' = [sh EXCEPT ![c] =
              IF sh[c].shr = NilResponse
                THEN [sh[c] EXCEPT !.pc = "Register"]
                ELSE AfterCallback(c, sh[c].shr, res, "Register", "returned")]
  /\ UNCHANGED <<streamHealthMap, streamHealthIndex,
                 lastStreamHealthResponse, bh>>
  /\ HealthStep

\* streamHealthRegister: a new id and a new channel in the map.
streamHealthRegister(c) ==
  /\ sh[c].pc = "Register"
  /\ streamHealthMutexFree
  /\ streamHealthIndex' = streamHealthIndex + 1
  /\ streamHealthMap' =
       [id \in DOMAIN streamHealthMap \cup {streamHealthIndex} |->
          IF id = streamHealthIndex THEN <<>> ELSE streamHealthMap[id]]
  /\ sh' = [sh EXCEPT ![c].pc = "streaming", ![c].id = streamHealthIndex]
  /\ UNCHANGED <<lastStreamHealthResponse, bh>>
  /\ HealthStep

\* The response is passed to callback and stays on the channel.
StreamHealthReceive_peeks(c, res) ==
  /\ sh[c].pc = "streaming"
  /\ streamHealthMap[sh[c].id] /= <<>>
  /\ sh' = [sh EXCEPT ![c] =
              AfterCallback(c, Head(streamHealthMap[sh[c].id]), res,
                            "streaming", "Unregister")]
  /\ UNCHANGED <<streamHealthMap, streamHealthIndex,
                 lastStreamHealthResponse, bh>>
  /\ HealthStep

\* The loop of StreamHealth: a response is taken from the channel and
\* passed to callback.
StreamHealthReceive(c, res) ==
  /\ sh[c].pc = "streaming"
  /\ streamHealthMap[sh[c].id] /= <<>>
  /\ streamHealthMap' =
       [streamHealthMap EXCEPT ![sh[c].id] = Tail(streamHealthMap[sh[c].id])]
  /\ sh' = [sh EXCEPT ![c] =
              AfterCallback(c, Head(streamHealthMap[sh[c].id]), res,
                            "streaming", "Unregister")]
  /\ UNCHANGED <<streamHealthIndex, lastStreamHealthResponse, bh>>
  /\ HealthStep

\* The loop of StreamHealth: the context is done.
StreamHealthDone(c) ==
  /\ sh[c].pc = "streaming"
  /\ sh' = [sh EXCEPT ![c].pc = "Unregister"]
  /\ UNCHANGED <<streamHealthMap, streamHealthIndex,
                 lastStreamHealthResponse, bh>>
  /\ HealthStep

\* The channel is deleted without streamHealthMutex.
streamHealthUnregister_noLock(c) ==
  /\ sh[c].pc = "Unregister"
  /\ streamHealthMap' =
       [id \in DOMAIN streamHealthMap \ {sh[c].id} |-> streamHealthMap[id]]
  /\ sh' = [sh EXCEPT ![c].pc = "returned"]
  /\ UNCHANGED <<streamHealthIndex, lastStreamHealthResponse, bh>>
  /\ HealthStep

\* The deferred streamHealthUnregister, and the return of StreamHealth.
streamHealthUnregister(c) ==
  /\ sh[c].pc = "Unregister"
  /\ streamHealthMutexFree
  /\ streamHealthMap' =
       [id \in DOMAIN streamHealthMap \ {sh[c].id} |-> streamHealthMap[id]]
  /\ sh' = [sh EXCEPT ![c].pc = "returned"]
  /\ UNCHANGED <<streamHealthIndex, lastStreamHealthResponse, bh>>
  /\ HealthStep

\* ----------------------------------------------------------- ExecuteBatch
\* The id txPool.Begin gives the implicit transaction of a batch; callers
\* pass 1 for a transaction of their own.
ImplicitTx == 2

\* What te.txPool.Begin, an Execute, te.txPool.Commit return.
PoolResults == {"ok", "error"}

\* A step of ExecuteBatch touches the counters and nothing else of the
\* server.
BatchStep ==
  /\ last' = NoRequest
  /\ ret' = Recorded(NoReturn)
  /\ UNCHANGED <<state, target, alsoAllow, open, pc, action, inflight,
                 probeHolds, prevState, held, observed, dbconfigs, entry, lameduck,
                 healthVars, xr, he, checkMySQLThrottler, QueryTimeout,
                 timeBomb, pureVars>>

\* The arguments are not checked.
ExecuteBatch_noInputCheck(tgt, local, n, asTransaction, transactionID) ==
  /\ batch.pc = "idle"
  /\ LET call == [NoBatch EXCEPT !.target = tgt, !.local = local,
                                 !.asTransaction = asTransaction,
                                 !.transactionID = transactionID,
                                 !.queries = n]
         err == startRequest(tgt, FALSE, transactionID /= 0, local)
     IN  IF err /= OK
           THEN /\ batch' = [call EXCEPT !.pc = "returned", !.err = err]
                /\ UNCHANGED <<requests, txRequests>>
         ELSE /\ batch' = [call EXCEPT !.pc = IF asTransaction THEN "Begin"
                                                               ELSE "Execute"]
              /\ admit(FALSE)
  /\ BatchStep

\* ExecuteBatch up to the return of its own startRequest: the checks of
\* the arguments, and the admission with isTx = false.
ExecuteBatch(tgt, local, n, asTransaction, transactionID) ==
  /\ batch.pc = "idle"
  /\ LET call == [NoBatch EXCEPT !.target = tgt, !.local = local,
                                 !.asTransaction = asTransaction,
                                 !.transactionID = transactionID,
                                 !.queries = n]
         err == startRequest(tgt, FALSE, transactionID /= 0, local)
     IN  IF n = 0 \/ (asTransaction /\ transactionID /= 0)
           THEN /\ batch' = [call EXCEPT !.pc = "returned", !.err = BAD_INPUT]
                /\ UNCHANGED <<requests, txRequests>>
         ELSE IF err /= OK
           THEN /\ batch' = [call EXCEPT !.pc = "returned", !.err = err]
                /\ UNCHANGED <<requests, txRequests>>
         ELSE /\ batch' = [call EXCEPT !.pc = IF asTransaction THEN "Begin"
                                                               ELSE "Execute"]
              /\ admit(FALSE)
  /\ BatchStep

\* tsv.Begin inside the batch, a whole request: on success the deferred
\* Rollback is registered.
BatchBegin(res) ==
  /\ batch.pc = "Begin"
  /\ LET err == startRequest(batch.target, TRUE, FALSE, batch.local) IN
       batch' = IF err /= OK
                  THEN [batch EXCEPT !.pc = "endRequest", !.err = err]
                ELSE IF res /= "ok"
                  THEN [batch EXCEPT !.pc = "endRequest", !.err = "error"]
                ELSE [batch EXCEPT !.pc = "Execute", !.tx = "open",
                                   !.transactionID = ImplicitTx,
                                   !.begins = batch.begins + 1]
  /\ UNCHANGED <<requests, txRequests>>
  /\ BatchStep

\* Where the batch goes when it returns an error: through the deferred
\* Rollback if an implicit transaction is registered.
BatchFails ==
  IF batch.asTransaction /\ batch.transactionID /= 0
    THEN "Rollback" ELSE "endRequest"

\* tsv.Execute of the next query, a whole request.
BatchExecute(res) ==
  /\ batch.pc = "Execute"
  /\ LET err == startRequest(batch.target, FALSE, batch.transactionID /= 0,
                             batch.local)
     IN
       batch' = IF err /= OK
                  THEN [batch EXCEPT !.pc = BatchFails, !.err = err,
                                     !.results = 0]
                ELSE IF res /= "ok"
                  THEN [batch EXCEPT !.pc = BatchFails, !.err = "error",
                                     !.executed = batch.executed + 1,
                                     !.results = 0]
                ELSE [batch EXCEPT
                        !.pc = IF batch.executed + 1 < batch.queries
                                 THEN "Execute"
                               ELSE IF batch.asTransaction THEN "Commit"
                               ELSE "endRequest",
                        !.executed = batch.executed + 1,
                        !.results = batch.results + 1]
  /\ UNCHANGED <<requests, txRequests>>
  /\ BatchStep

\* tsv.Commit of the implicit transaction, a whole request: transactionID
\* is set to 0 whether it succeeded or not, so that the deferred Rollback
\* does nothing.
BatchCommit(res) ==
  /\ batch.pc = "Commit"
  /\ LET err == startRequest(batch.target, TRUE, TRUE, batch.local) IN
       batch' = IF err /= OK
                  THEN [batch EXCEPT !.pc = "endRequest", !.err = err,
                                     !.transactionID = 0, !.results = 0]
                ELSE IF res /= "ok"
                  THEN [batch EXCEPT !.pc = "endRequest", !.err = "error",
                                     !.transactionID = 0, !.results = 0,
                                     !.tx = "commit failed"]
                ELSE [batch EXCEPT !.pc = "endRequest",
                                   !.transactionID = 0, !.tx = "committed"]
  /\ UNCHANGED <<requests, txRequests>>
  /\ BatchStep

\* The deferred tsv.Rollback, a whole request whose error is dropped.
BatchRollback ==
  /\ batch.pc = "Rollback"
  /\ LET err == startRequest(batch.target, TRUE, TRUE, batch.local) IN
       batch' = IF err /= OK
                  THEN [batch EXCEPT !.pc = "endRequest"]
                  ELSE [batch EXCEPT !.pc = "endRequest",
                                     !.tx = "rolled back"]
  /\ UNCHANGED <<requests, txRequests>>
  /\ BatchStep

\* The deferred endRequest(false), and the return.
BatchReturn ==
  /\ batch.pc = "endRequest"
  /\ batch' = [batch EXCEPT !.pc = "returned"]
  /\ endRequest(FALSE)
  /\ BatchStep

\* The implicit transaction of the batch is open in the pool: it was
\* begun, neither committed nor rolled back, and the transaction engine
\* has not been closed since.
ImplicitTxOpen == batch.tx = "open" /\ "te" \in open

\* ------------------------------------------------------------ handleError
\* An error message, as its text and whether bytes of it were taken from
\* the values of the bind variables.
FailoverMessage ==
  [text |-> "failover in progress (errno 1227) (sqlstate 42000)",
   fromBindVars |-> FALSE]
\* fmt.Sprintf("(errno %d) (sqlstate %s) during query: %s", ..., sql).
StrippedMessage ==
  [text |-> "(errno) (sqlstate) during query: sql", fromBindVars |-> FALSE]
\* A message of MySQL or of the engine; MySQL quotes the rewritten query,
\* which holds the values of the bind variables.
Messages(bindVariables) ==
  {FailoverMessage}
    \cup [text : {"message"},
          fromBindVars : IF bindVariables = 0 THEN {FALSE} ELSE BOOLEAN]

ER_FAILOVER == 1227
ERDupEntry == 1062
SQLErrors == {0, ERDupEntry, ER_FAILOVER}
ErrorCodes == {UNKNOWN_ERROR, INTERNAL_ERROR, QUERY_NOT_SERVED, BAD_INPUT}

\* The errors a closure returns: TabletErrors, and errors of another type,
\* which have a message only.
Errors(bindVariables) ==
  [isTabletError : {TRUE}, ErrorCode : ErrorCodes, SQLError : SQLErrors,
   Message : Messages(bindVariables)]
    \cup [isTabletError : {FALSE}, ErrorCode : {"none"}, SQLError : {0},
          Message : Messages(bindVariables)]

\* handleError: the error returned to the caller (myError).
handleError(terse, bindVariables, err) ==
  LET terr == IF err.isTabletError
                THEN err
                ELSE [isTabletError |-> TRUE, ErrorCode |-> UNKNOWN_ERROR,
                      SQLError |-> 0, Message |-> err.Message]
  IN  IF terse /\ terr.SQLError /= 0 /\ bindVariables /= 0
        THEN IF terr.SQLError = ER_FAILOVER /\ terr.Message = FailoverMessage
               THEN terr
               ELSE [terr EXCEPT !.Message = StrippedMessage]
        ELSE terr

\* handlePanicAndSendLogStats: the error a recovered panic is turned into.
\* Its message starts with QueryAsString(sql, bindVariables), the query
\* and its bind variables as a string.
handlePanic(bindVariables) ==
  [isTabletError |-> TRUE, ErrorCode |-> UNKNOWN_ERROR, SQLError |-> 0,
   Message |-> [text |-> "Uncaught panic for", 
                fromBindVars |-> bindVariables /= 0]]

\* A call of handleError, or a recovered panic, touches nothing of the
\* server.
ErrorStep ==
  /\ last' = NoRequest
  /\ ret' = Recorded(NoReturn)
  /\ UNCHANGED <<coreVars, lameduck, healthVars, batch, xr,
                 checkMySQLThrottler, QueryTimeout, timeBomb, pureVars>>

HandleErrorCall(terse, bindVariables, err) ==
  /\ he' = [pc |-> "returned", path |-> "handleError", terse |-> terse,
            bindVariables |-> bindVariables, err |-> err,
            out |-> handleError(terse, bindVariables, err)]
  /\ ErrorStep

RecoveredPanic(terse, bindVariables) ==
  /\ he' = [pc |-> "returned", path |-> "panic", terse |-> terse,
            bindVariables |-> bindVariables, err |-> NoTabletError,
            out |-> handlePanic(bindVariables)]
  /\ ErrorStep

\* ------------------------------------------------------------ execRequest
\* A step of execRequest touches the counters and nothing else of the
\* server.
ExecStep ==
  /\ last' = NoRequest
  /\ ret' = Recorded(NoReturn)
  /\ UNCHANGED <<state, target, alsoAllow, open, pc, action, inflight,
                 probeHolds, prevState, held, observed, dbconfigs, entry, lameduck,
                 healthVars, batch, he, checkMySQLThrottler,
                 QueryTimeout, timeBomb, pureVars>>

\* The errors the closures return, as handleError is given them.
ExecErrors ==
  { e \in Errors(0) : e.SQLError = 0 /\ e.Message /= FailoverMessage
                      /\ e.ErrorCode \in {"none", INTERNAL_ERROR} }

\* execRequest up to the return of startRequest: the log statistics are
\* made and handlePanicAndSendLogStats is deferred; after an admission
\* the function that calls endRequest is deferred.
execRequest(tgt, local, isTx, allowOnShutdown) ==
  /\ xr.pc \in {"idle", "returned"}
  /\ xr.count < MaxExecRequests
  /\ LET call == [NoExec EXCEPT !.isTx = isTx, !.count = xr.count + 1]
         err == startRequest(tgt, isTx, allowOnShutdown, local)
     IN  IF err /= OK
           THEN /\ xr' = [call EXCEPT !.pc = "handlePanicAndSendLogStats",
                                      !.err = err]
                /\ UNCHANGED <<requests, txRequests>>
         ELSE /\ xr' = [call EXCEPT !.pc = "exec"]
              /\ admit(isTx)
  /\ ExecStep

\* err = exec(ctx, logStats): the closure returns nil, returns an error,
\* which handleError turns into the error returned and attaches to the
\* log statistics, or panics, which leaves err as startRequest set it.
execRequestExec(res, e) ==
  /\ xr.pc = "exec"
  /\ xr' = IF res = "error"
             THEN [xr EXCEPT !.pc = "endRequest", !.res = res,
                             !.err = handleError(FALSE, 0, e).ErrorCode,
                             !.logError = handleError(FALSE, 0, e).ErrorCode]
             ELSE [xr EXCEPT !.pc = "endRequest", !.res = res]
  /\ UNCHANGED <<requests, txRequests>>
  /\ ExecStep

\* Mutation of execRequestEnd: a panic skips the deferred endRequest.
execRequestEnd_notOnPanic ==
  /\ xr.pc = "endRequest"
  /\ IF xr.res = "panic"
       THEN /\ xr' = [xr EXCEPT !.pc = "handlePanicAndSendLogStats"]
            /\ UNCHANGED <<requests, txRequests>>
       ELSE /\ xr' = [xr EXCEPT !.pc = "handlePanicAndSendLogStats",
                                !.released = @ + 1]
            /\ endRequest(xr.isTx)
  /\ ExecStep

\* The deferred function of execRequest: cancel() and tsv.endRequest(isTx),
\* on a return and on a panic.
execRequestEnd ==
  /\ xr.pc = "endRequest"
  /\ xr' = [xr EXCEPT !.pc = "handlePanicAndSendLogStats", !.released = @ + 1]
  /\ endRequest(xr.isTx)
  /\ ExecStep

\* The deferred handlePanicAndSendLogStats: a panic is recovered, made the
\* error of the call and of the log statistics; the log statistics are
\* sent.
handlePanicAndSendLogStats ==
  /\ xr.pc = "handlePanicAndSendLogStats"
  /\ xr' = IF xr.res = "panic"
             THEN [xr EXCEPT !.pc = "returned",
                             !.err = handlePanic(0).ErrorCode,
                             !.logError = handlePanic(0).ErrorCode,
                             !.sends = @ + 1]
             ELSE [xr EXCEPT !.pc = "returned", !.sends = @ + 1]
  /\ UNCHANGED <<requests, txRequests>>
  /\ ExecStep

\* ------------------------------------------------------------- SplitQuery
\* The arguments of SplitQuery: the counts are int64, the algorithm is an
\* enum of the protocol that may hold a value the server does not know.
SplitCounts == (0 - MaxSplitCount)..MaxSplitCount
Algorithms == {"EQUAL_SPLITS", "FULL_SCAN", "UNKNOWN_ALGORITHM"}
SplitTargets ==
  [Keyspace : {InitKeyspace}, Shard : {InitShard},
   TabletType : TabletTypes \cup {TabletType_UNKNOWN}]

\* Mutation of validateSplitQueryParameters: two non-zero counts pass.
validateSplitQueryParameters_allowsBoth(tgt, splitCount, numRowsPerQueryPart, algorithm) ==
  IF tgt.TabletType /= "RDONLY" THEN BAD_INPUT
  ELSE IF numRowsPerQueryPart < 0 THEN BAD_INPUT
  ELSE IF splitCount < 0 THEN BAD_INPUT
  ELSE IF splitCount = 0 /\ numRowsPerQueryPart = 0 THEN BAD_INPUT
  ELSE IF algorithm /= "EQUAL_SPLITS" /\ algorithm /= "FULL_SCAN"
    THEN BAD_INPUT
  ELSE OK

validateSplitQueryParameters(tgt, splitCount, numRowsPerQueryPart, algorithm) ==
  IF tgt.TabletType /= "RDONLY" THEN BAD_INPUT
  ELSE IF numRowsPerQueryPart < 0 THEN BAD_INPUT
  ELSE IF splitCount < 0 THEN BAD_INPUT
  ELSE IF \/ splitCount = 0 /\ numRowsPerQueryPart = 0
          \/ splitCount /= 0 /\ numRowsPerQueryPart /= 0
    THEN BAD_INPUT
  ELSE IF algorithm /= "EQUAL_SPLITS" /\ algorithm /= "FULL_SCAN"
    THEN BAD_INPUT
  ELSE OK

\* createSplitParams: the constructor it calls, or its panic.
createSplitParams(splitCount, numRowsPerQueryPart) ==
  IF numRowsPerQueryPart /= 0 /\ splitCount = 0
    THEN "NewSplitParamsGivenNumRowsPerQueryPart"
  ELSE IF numRowsPerQueryPart = 0 /\ splitCount /= 0
    THEN "NewSplitParamsGivenSplitCount"
  ELSE "panic"

\* The closure of SplitQuery up to the return of createSplitParams.
SplitQuery(tgt, splitCount, numRowsPerQueryPart, algorithm) ==
  /\ LET err == validateSplitQueryParameters(tgt, splitCount,
                                             numRowsPerQueryPart, algorithm)
     IN  sq' = [pc |-> "returned", target |-> tgt, splitCount |-> splitCount,
                numRowsPerQueryPart |-> numRowsPerQueryPart,
                algorithm |-> algorithm, err |-> err,
                splitParams |-> IF err /= OK THEN "none"
                                ELSE createSplitParams(splitCount,
                                                       numRowsPerQueryPart)]
  /\ last' = NoRequest
  /\ ret' = Recorded(NoReturn)
  /\ UNCHANGED <<coreVars, lameduck, healthVars, batch, xr, he,
                 checkMySQLThrottler, QueryTimeout, timeBomb, nv, wr>>

\* ---------------------------------------------------------------- NEXTVAL
\* The new next_id of the sequence row: the old one advanced by the
\* smallest multiple of cache, at least one, that covers the block which
\* ends before need.
RECURSIVE newLast(_, _, _)
\* Mutation of newLast: next_id is advanced by cache once.
newLast_once(nextID, cache, need) == nextID + cache

newLast(nextID, cache, need) ==
  IF nextID + cache >= need THEN nextID + cache
                            ELSE newLast(nextID + cache, cache, need)

\* A request for n values fits in the window [NextVal, LastVal).
FitsInWindow(seq, n) == seq.NextVal /= 0 /\ seq.NextVal + n =< seq.LastVal

\* A NEXTVAL request for n values.  If the block does not fit, the row is
\* read for update, an empty window starts at its next_id, and the row is
\* updated; the request returns the first id of its block.
Nextval(n) ==
  /\ nv.pc /= "idle"
  /\ nv.next_id < MaxNextId
  /\ LET first == IF FitsInWindow(nv, n) \/ nv.NextVal /= 0 THEN nv.NextVal
                                                             ELSE nv.next_id
         lastVal == IF FitsInWindow(nv, n)
                   THEN nv.LastVal
                   ELSE newLast(nv.next_id, nv.cache, first + n)
     IN  nv' = [nv EXCEPT !.pc = "returned", !.n = n, !.ret = first,
                          !.NextVal = first + n, !.LastVal = lastVal,
                          !.next_id = IF FitsInWindow(nv, n) THEN @
                                                              ELSE lastVal,
                          !.reads = IF FitsInWindow(nv, n) THEN 0 ELSE 1,
                          !.updates = IF FitsInWindow(nv, n) THEN 0 ELSE 1,
                          !.prevEnd = nv.NextVal,
                          !.prevNextId = nv.next_id]
  /\ last' = NoRequest
  /\ ret' = Recorded(NoReturn)
  /\ UNCHANGED <<coreVars, lameduck, healthVars, batch, xr, he,
                 checkMySQLThrottler, QueryTimeout, timeBomb, sq, wr>>

\* The row of the sequence table is created, with any next_id and cache.
CreateSequence(nextID, cache) ==
  /\ nv.pc = "idle"
  /\ nv' = [NoSequence EXCEPT !.pc = "created", !.next_id = nextID,
                              !.cache = cache, !.prevNextId = nextID]
  /\ last' = NoRequest
  /\ ret' = Recorded(NoReturn)
  /\ UNCHANGED <<coreVars, lameduck, healthVars, batch, xr, he,
                 checkMySQLThrottler, QueryTimeout, timeBomb, sq, wr>>

\* ---------------------------------------------------------- specification
ControllerStep(t) ==
  \/ fullStart(t, "ok")
  \/ \E res \in FullStartResults \ {"ok"} : fullStart(t, res)
  \/ \E throttlerOk \in BOOLEAN : serveNewTypeBegin(t, throttlerOk)
  \/ serveNewTypeMaster(t)
  \/ serveNewTypeWait(t)
  \/ serveNewTypeClose(t)
  \/ closeAll(t)
  \/ waitForShutdown(t)
  \/ drainWaitTx(t)
  \/ drainCloseTx(t)
  \/ drainWaitReq(t)
  \/ drainFinish(t)

Next ==
  \/ \E tabletType \in ServedTypes : InitDBConfig(tabletType)
  \/ \E t \in Ctl, tabletType \in ServedTypes, serving \in BOOLEAN,
        allow \in AlsoAllowArgs : SetServingType(t, tabletType, serving, allow)
  \/ \E t \in Ctl : StopService(t)
  \/ \E t \in Threads : ControllerStep(t)
  \/ CheckMySQL
  \/ \E reachable \in BOOLEAN : isMySQLReachable(reachable)
  \/ probeStopService
  \/ probeRelease
  \/ \E call \in ClientCalls, tgt \in RequestTargets, local \in BOOLEAN :
        StartRequest(call, tgt, local, FALSE)
  \/ \E isTx \in BOOLEAN, res \in ExecResults : EndRequest(isTx, res)

Spec == Init /\ [][Next]_vars

\* The controller with one caller and no MySQL probe, and clients whose
\* requests and results are recorded in last.
AdmissionNext ==
  \/ \E tabletType \in ServedTypes : InitDBConfig(tabletType)
  \/ \E tabletType \in ServedTypes, serving \in BOOLEAN, allow \in AlsoAllowArgs :
        SetServingType(1, tabletType, serving, allow)
  \/ StopService(1)
  \/ ControllerStep(1)
  \/ \E call \in ClientCalls, caller \in RecordedCallers :
        StartRequest(call, caller.target, caller.local, TRUE)
  \/ \E isTx \in BOOLEAN, res \in ExecResults : EndRequest(isTx, res)

AdmissionSpec == Init /\ [][AdmissionNext]_vars

\* The controller, the probe and clients, with what each controller call
\* returns recorded in ret.  The clients address the served target.
ControlCallers == { c \in RecordedCallers : c.target = ServedTarget("MASTER") }

ControlNext ==
  \/ \E tabletType \in ServedTypes : InitDBConfig(tabletType)
  \/ \E t \in Ctl, tabletType \in ServedTypes, serving \in BOOLEAN,
        allow \in AlsoAllowArgs : SetServingType(t, tabletType, serving, allow)
  \/ \E t \in Ctl : StopService(t)
  \/ \E t \in Threads : ControllerStep(t)
  \/ CheckMySQL
  \/ \E reachable \in BOOLEAN : isMySQLReachable(reachable)
  \/ probeStopService
  \/ probeRelease
  \/ \E call \in ClientCalls, caller \in ControlCallers :
        StartRequest(call, caller.target, caller.local, FALSE)
  \/ \E isTx \in BOOLEAN, res \in ExecResults : EndRequest(isTx, res)

\* The state after NewTabletServer, with the returns recorded.
ControlInit == NewTabletServer /\ ret = NoReturn /\ held = NotHeld

ControlSpec == ControlInit /\ [][ControlNext]_vars

\* The controller with one caller, EnterLameduck and ExitLameduck, and
\* clients whose requests are recorded in last.
LameduckCallers ==
  { c \in RecordedCallers :
      c.target \in {NilTarget, ServedTarget("MASTER")} }

LameduckNext ==
  \/ \E tabletType \in ServedTypes : InitDBConfig(tabletType)
  \/ \E tabletType \in ServedTypes, serving \in BOOLEAN, allow \in AlsoAllowArgs :
        SetServingType(1, tabletType, serving, allow)
  \/ StopService(1)
  \/ ControllerStep(1)
  \/ \E call \in ClientCalls, caller \in LameduckCallers :
        StartRequest(call, caller.target, caller.local, TRUE)
  \/ \E isTx \in BOOLEAN, res \in ExecResults : EndRequest(isTx, res)
  \/ EnterLameduckCall
  \/ ExitLameduckCall

\* The state after NewTabletServer, with the returns recorded.
LameduckInit == NewTabletServer /\ ret = NoReturn /\ held = NotHeld

LameduckSpec == LameduckInit /\ [][LameduckNext]_vars

\* Goroutines are scheduled fairly: a controller operation that can take
\* its next step takes it (a Wait returns once its counter is zero), the
\* MySQL probe returns, and every admitted request ends.
FairSpec ==
  /\ Spec
  /\ \A t \in Threads : WF_vars(ControllerStep(t))
  /\ WF_vars(\E reachable \in BOOLEAN : isMySQLReachable(reachable))
  /\ WF_vars(probeStopService)
  /\ WF_vars(probeRelease)
  /\ WF_vars(\E isTx \in BOOLEAN, res \in ExecResults : EndRequest(isTx, res))

\* Health streaming alone, on a server that is not started: one
\* broadcaster, and subscribers that each call StreamHealth once.
BroadcastHealthStep ==
  \/ bh.count < MaxBroadcasts /\ BroadcastHealth
  \/ BroadcastHealthBuild
  \/ BroadcastHealthLock
  \/ \E id \in bh.todo : BroadcastHealthSend(id)
  \/ BroadcastHealthStore

HealthNext ==
  \/ BroadcastHealthStep
  \/ \E c \in StreamCallers : StreamHealth(c)
  \/ \E c \in StreamCallers, res \in CallbackResults : StreamHealthFirst(c, res)
  \/ \E c \in StreamCallers : streamHealthRegister(c)
  \/ \E c \in StreamCallers, res \in CallbackResults :
        StreamHealthReceive(c, res)
  \/ \E c \in StreamCallers : StreamHealthDone(c)
  \/ \E c \in StreamCallers : streamHealthUnregister(c)

HealthSpec == Init /\ [][HealthNext]_vars

\* The goroutine that calls BroadcastHealth is scheduled; nothing is
\* assumed of the subscribers.
FairHealthSpec == HealthSpec /\ WF_vars(BroadcastHealthStep)

\* The steps of the StreamHealth call of caller c.
StreamHealthStep(c) ==
  \/ StreamHealth(c)
  \/ \E res \in CallbackResults : StreamHealthFirst(c, res)
  \/ streamHealthRegister(c)
  \/ \E res \in CallbackResults : StreamHealthReceive(c, res)
  \/ StreamHealthDone(c)
  \/ streamHealthUnregister(c)

\* The state after NewTabletServer, with the deliveries to the callbacks
\* recorded.
StreamInit == NewTabletServer /\ ret = NoReturn /\ held = NotHeld

\* One subscriber and enough broadcasts to fill its channel.
SubscriberNext ==
  \/ BroadcastHealthStep
  \/ StreamHealthStep(1)

SubscriberSpec == StreamInit /\ [][SubscriberNext]_vars

\* All subscribers and a few broadcasts.
StreamBroadcastStep ==
  \/ bh.count < MaxStreamBroadcasts /\ BroadcastHealth
  \/ BroadcastHealthBuild
  \/ BroadcastHealthLock
  \/ \E id \in bh.todo : BroadcastHealthSend(id)
  \/ BroadcastHealthStore

StreamNext ==
  \/ StreamBroadcastStep
  \/ \E c \in StreamCallers : StreamHealthStep(c)

StreamSpec == StreamInit /\ [][StreamNext]_vars

\* The scenario of two subscribers: caller 1 subscribes before the first
\* broadcast and reads each snapshot before the next broadcast; caller 2
\* subscribes at any time and never reads its channel.
FastSubscriber == 1
SlowSubscriber == 2

Subscribing(c) ==
  \/ StreamHealth(c)
  \/ StreamHealthFirst(c, "nil")
  \/ streamHealthRegister(c)

FastHasRead ==
  /\ sh[FastSubscriber].pc = "streaming"
  /\ streamHealthMap[sh[FastSubscriber].id] = <<>>

ScenarioNext ==
  \/ Subscribing(FastSubscriber)
  \/ Subscribing(SlowSubscriber)
  \/ StreamHealthReceive(FastSubscriber, "nil")
  \/ bh.count < ScenarioBroadcasts /\ FastHasRead /\ BroadcastHealth
  \/ BroadcastHealthBuild
  \/ BroadcastHealthLock
  \/ \E id \in bh.todo : BroadcastHealthSend(id)
  \/ BroadcastHealthStore

ScenarioSpec == StreamInit /\ [][ScenarioNext]_vars

\* A subscriber that never reads, subscribed before the first broadcast,
\* and a StreamHealth call that starts at any time and reads at any pace.
LastKnownNext ==
  \/ BroadcastHealthStep
  \/ lastStreamHealthResponse = NilResponse /\ StreamHealth(SlowSubscriber)
  \/ StreamHealthFirst(SlowSubscriber, "nil")
  \/ streamHealthRegister(SlowSubscriber)
  \/ Subscribing(FastSubscriber)
  \/ StreamHealthReceive(FastSubscriber, "nil")

LastKnownSpec == StreamInit /\ [][LastKnownNext]_vars

\* BroadcastHealth beside the controller: no caller has subscribed, the
\* controller makes its calls, and the pairs that tsv.target.TabletType and
\* tsv.state form are kept in held.
SnapshotBroadcastStep ==
  \/ bh.count < MaxSnapshots /\ BroadcastHealth
  \/ BroadcastHealthBuild
  \/ BroadcastHealthLock
  \/ BroadcastHealthStore

SnapshotNext ==
  \/ \E tabletType \in ServedTypes : InitDBConfig(tabletType)
  \/ \E tabletType \in ServedTypes, serving \in BOOLEAN :
        SetServingType(1, tabletType, serving, {})
  \/ StopService(1)
  \/ ControllerStep(1)
  \/ SnapshotBroadcastStep

\* The state after NewTabletServer, with the pair it holds recorded.
SnapshotInit ==
  /\ NewTabletServer
  /\ ret = NotRecorded
  /\ held = {<<TabletType_UNKNOWN, StateNotConnected>>}

SnapshotSpec == SnapshotInit /\ [][SnapshotNext]_vars

\* SplitQuery with every combination of its arguments.
SplitQueryNext ==
  \E tgt \in SplitTargets, splitCount \in SplitCounts,
     numRowsPerQueryPart \in SplitCounts, algorithm \in Algorithms :
     SplitQuery(tgt, splitCount, numRowsPerQueryPart, algorithm)

SplitQuerySpec == Init /\ [][SplitQueryNext]_vars

\* ----------------------------------------------------- gateway withRetry
\* What inner returns: nil, a *tabletconn.ServerError with its ServerCode,
\* or another error.
ServerCodes == {INTERNAL_ERROR, QUERY_NOT_SERVED, "RESOURCE_EXHAUSTED",
                BAD_INPUT}
InnerErrors ==
  {NilError, [kind |-> "other", ServerCode |-> "none"]}
    \cup {[kind |-> "ServerError", ServerCode |-> code] : code \in ServerCodes}
RetryCounts == 0..MaxRetryCount

\* Mutation of canRetry: a call in a transaction is retried as well.
canRetry_inTransaction(ctxDone, err, inTransaction, isStreaming) ==
  IF err = NilError THEN FALSE
  ELSE IF ctxDone THEN FALSE
  ELSE IF err.kind = "ServerError"
    THEN CASE err.ServerCode = INTERNAL_ERROR -> ~isStreaming
           [] err.ServerCode = QUERY_NOT_SERVED -> TRUE
           [] OTHER -> FALSE
    ELSE FALSE

\* canRetry: nil is not retried, nor anything once ctx.Done() is closed;
\* of the server errors INTERNAL_ERROR returns false for a streaming query
\* and else falls through to QUERY_NOT_SERVED, which returns
\* !inTransaction; every other error returns false.
canRetry(ctxDone, err, inTransaction, isStreaming) ==
  IF err = NilError THEN FALSE
  ELSE IF ctxDone THEN FALSE
  ELSE IF err.kind = "ServerError"
    THEN CASE err.ServerCode = INTERNAL_ERROR ->
                IF isStreaming THEN FALSE ELSE ~inTransaction
           [] err.ServerCode = QUERY_NOT_SERVED -> ~inTransaction
           [] OTHER -> FALSE
    ELSE FALSE

\* A step of withRetry touches only the call itself.
RetryStep ==
  /\ last' = NoRequest
  /\ ret' = Recorded(NoReturn)
  /\ UNCHANGED <<coreVars, lameduck, healthVars, batch, xr, he,
                 checkMySQLThrottler, QueryTimeout, timeBomb, sq, nv>>

\* withRetry up to the loop: getConn fails, and the call returns its
\* error, or gives the connection.  ctxDone: the context is done already.
withRetry(retryCount, inTransaction, isStreaming, ctxDone, connFound) ==
  /\ wr.pc = "idle"
  /\ wr' = [NoRetry EXCEPT
              !.pc = IF connFound THEN "for" ELSE "returned",
              !.retryCount = retryCount, !.inTransaction = inTransaction,
              !.isStreaming = isStreaming, !.ctxDone = ctxDone,
              !.err = IF connFound THEN NilError
                      ELSE [kind |-> "other", ServerCode |-> "none"]]
  /\ RetryStep

\* The test of the loop, and the call of inner, which returns err.
withRetryInner(err) ==
  /\ wr.pc = "for"
  /\ wr' = IF wr.i < wr.retryCount + 1
             THEN [wr EXCEPT !.pc = "canRetry", !.err = err,
                             !.attempts = Append(wr.attempts,
                                                 [err |-> err, done |-> FALSE,
                                                  retried |-> FALSE])]
             ELSE [wr EXCEPT !.pc = "returned"]
  /\ RetryStep

\* The end of the loop body: continue if canRetry, else break.  The
\* attempt records whether ctx.Done() was closed when canRetry looked.
withRetryCanRetry ==
  /\ wr.pc = "canRetry"
  /\ LET again == canRetry(wr.ctxDone, wr.err, wr.inTransaction,
                           wr.isStreaming)
         n == Len(wr.attempts)
     IN  wr' = [wr EXCEPT !.pc = IF again THEN "for" ELSE "returned",
                          !.i = IF again THEN wr.i + 1 ELSE wr.i,
                          !.attempts[n].done = wr.ctxDone,
                          !.attempts[n].retried = again]
  /\ RetryStep

\* The context of the call is cancelled or times out.
ctxCancel ==
  /\ wr.pc \in {"for", "canRetry"}
  /\ ~wr.ctxDone
  /\ wr' = [wr EXCEPT !.ctxDone = TRUE]
  /\ RetryStep

\* One withRetry call with any arguments, any results of inner, and a
\* context that is done at any time.
RetryNext ==
  \/ \E retryCount \in RetryCounts, inTransaction \in BOOLEAN,
        isStreaming \in BOOLEAN, ctxDone \in BOOLEAN, connFound \in BOOLEAN :
        withRetry(retryCount, inTransaction, isStreaming, ctxDone, connFound)
  \/ \E err \in InnerErrors : withRetryInner(err)
  \/ withRetryCanRetry
  \/ ctxCancel

RetrySpec == Init /\ [][RetryNext]_vars

\* Any sequence of NEXTVAL requests on one sequence.
NextvalNext ==
  \/ \E nextID \in 1..2, cache \in 1..MaxCache : CreateSequence(nextID, cache)
  \/ \E n \in 1..MaxNextvalCount : Nextval(n)

NextvalSpec == Init /\ [][NextvalNext]_vars

\* The errors of requests, for every setting of TerseErrors.
ErrorNext ==
  \/ \E terse \in BOOLEAN, bindVariables \in 0..MaxBindVars :
        \E err \in Errors(bindVariables) :
           HandleErrorCall(terse, bindVariables, err)
  \/ \E terse \in BOOLEAN, bindVariables \in 0..MaxBindVars :
        RecoveredPanic(terse, bindVariables)

ErrorSpec == Init /\ [][ErrorNext]_vars

\* ------------------------------------------------------------------ claims
NC == StateNotConnected
NS == StateNotServing
SV == StateServing
TR == StateTransitioning
SD == StateShuttingDown

\* The edges of the state graph of the specification's section 4.1.
DocumentedEdges ==
  { <<NC, TR>>, <<NS, TR>>, <<SV, TR>>, <<TR, SV>>,
    <<SV, SD>>, <<SD, NS>>, <<NS, SD>>, <<SD, NC>> }

\* The edges the code takes besides: the MySQL probe that started in
\* StateNotServing switches back to it, and closeAll, after a failed start,
\* goes to StateNotConnected.
ProbeAndFailureEdges == { <<TR, NS>>, <<TR, NC>> }

\* C1 as stated: every change of the serving state is an edge of the
\* documented graph.
C1_OnlyDocumentedEdges ==
  [][state' = state \/ <<state, state'>> \in DocumentedEdges]_vars

\* C1, amended: every change of the serving state is an edge of the
\* documented graph, or TRANSITIONING -> NOT_SERVING (the end of a MySQL
\* probe started in NOT_SERVING), or TRANSITIONING -> NOT_CONNECTED (closeAll
\* after a failed full-start or serve-new-type); no other edge is taken.
C1_TransitionGraph ==
  [][state' = state
     \/ <<state, state'>> \in DocumentedEdges \cup ProbeAndFailureEdges]_vars

\* The MySQL probe has switched TRANSITIONING back to NOT_SERVING.
C1_Witness ==
  /\ prevState = StateTransitioning
  /\ state = StateNotServing
  /\ pc[Probe] \in {"probeSleep", "probeStop"}

\* A StartRequest step whose request and result are recorded in last'.
AdmStep == last' /= NoRequest /\ (last' /= last \/ requests' > requests)

\* Neither counter changes in the step.
CountersUnchanged == requests' = requests /\ txRequests' = txRequests

\* The calls that are issued with allowOnShutdown, as the entry points
\* pass it: Commit, Rollback, the 2PC operations, Execute with a tx-id.
IssuedWithAllowOnShutdown(call) ==
  \/ call.op \in {"Commit", "Rollback"}
  \/ call.op = "Execute" /\ call.transactionID /= 0

\* C2: startRequest admits a request only in SERVING, or in SHUTTING_DOWN
\* when the request was issued with allowOnShutdown; in each other state,
\* and in SHUTTING_DOWN without allowOnShutdown, it fails with
\* QUERY_NOT_SERVED (and registers nothing).
C2_StateRule ==
  [][AdmStep =>
       LET r == last'
           allowed == \/ state = SV
                      \/ state = SD /\ IssuedWithAllowOnShutdown(r.call)
       IN /\ r.err = OK => allowed
          /\ ~allowed => r.err = QUERY_NOT_SERVED /\ CountersUnchanged]_vars

\* A Commit was admitted while the controller is shutting down.
C2_Witness ==
  /\ state = SD
  /\ last.call.op = "Commit"
  /\ last.err = OK
  /\ txRequests > 0

\* C3 as stated: in TRANSITIONING and in SHUTTING_DOWN every startRequest
\* fails, for every caller and every operation.
C3_NothingAdmitted ==
  [][AdmStep /\ state \in {TR, SD} => last'.err /= OK]_vars

\* C3, amended: in TRANSITIONING every startRequest fails, for every caller
\* and every operation; in SHUTTING_DOWN every startRequest of a request
\* issued without allowOnShutdown fails, and only requests issued with
\* allowOnShutdown are admitted.
C3_TransientStates ==
  [][AdmStep =>
       LET r == last' IN
       /\ state = TR => r.err = QUERY_NOT_SERVED /\ CountersUnchanged
       /\ state = SD /\ ~IssuedWithAllowOnShutdown(r.call)
            => r.err = QUERY_NOT_SERVED /\ CountersUnchanged
       /\ state = SD /\ r.err = OK => IssuedWithAllowOnShutdown(r.call)]_vars

\* A Commit addressed to the served target was rejected in TRANSITIONING.
C3_Witness ==
  /\ state = TR
  /\ last.call.op = "Commit"
  /\ last.target = target
  /\ last.err = QUERY_NOT_SERVED

\* The requests.Add(1) of isMySQLReachable, while it is held.
ProbeReservation == IF probeHolds THEN 1 ELSE 0

\* C4 as stated: the request counter is the number of admitted requests
\* that have not ended, the transaction counter the number of admitted isTx
\* requests that have not ended, and neither is negative.
C4_CountersAreInflight ==
  /\ requests = inflight.tx + inflight.nontx
  /\ txRequests = inflight.tx
  /\ requests >= 0
  /\ txRequests >= 0

\* C4, amended: the request counter is the number of admitted requests that
\* have not ended plus one while isMySQLReachable holds the request it
\* reserved in SERVING; the transaction counter is the number of admitted
\* isTx requests that have not ended; neither is negative.
C4_Counters ==
  /\ requests = inflight.tx + inflight.nontx + ProbeReservation
  /\ txRequests = inflight.tx
  /\ requests >= 0
  /\ txRequests >= 0

\* Requests of both kinds are in flight while the probe holds its own.
C4_Witness ==
  /\ probeHolds
  /\ inflight.tx = 1
  /\ inflight.nontx = 1
  /\ requests = 3

\* The thread whose drain is about to leave SHUTTING_DOWN has observed both
\* counters at zero; by is the state its operation ends in.
DrainObservedZero(by) ==
  \E t \in Threads :
    /\ pc[t] = "drainFinish"
    /\ observed[t].tx
    /\ observed[t].req
    /\ by = (IF action[t] = actionGracefulStop THEN NS ELSE NC)

\* C5: a drain leaves SHUTTING_DOWN, for NOT_SERVING (graceful-stop) or
\* NOT_CONNECTED (StopService), only after both counters have been observed
\* at zero; and when every outstanding request has ended the drain
\* completes: SHUTTING_DOWN with both counters at zero does not last.
C5_DrainCompletes ==
  /\ [][state = SD /\ state' /= SD => DrainObservedZero(state')]_vars
  /\ (state = SD /\ requests = 0 /\ txRequests = 0)
       ~> (state /= SD \/ requests > 0)

\* A graceful stop has ended in NOT_SERVING.
C5_Witness ==
  /\ prevState = SD
  /\ state = NS
  /\ \A t \in Threads : pc[t] \notin {"drainFinish", "drainWaitReq"}

\* te.Close(false) of waitForShutdown is the step that leaves "drainCloseTx".
DrainClosesTe(t) == pc[t] = "drainCloseTx" /\ pc'[t] = "drainWaitReq"

\* requests.Wait() of waitForShutdown returns in the step that leaves
\* "drainWaitReq".
DrainRequestsWaitReturns(t) == pc[t] = "drainWaitReq" /\ pc'[t] = "drainFinish"

ServingMaster ==
  /\ state = StateServing
  /\ target = ServedTarget(TabletType_MASTER)
  /\ alsoAllow \in AlsoAllowArgs
  /\ requests = 0
  /\ txRequests = 0
  /\ open = {"qe", "updateStreamList", "txThrottler", "te", "messager"}
  /\ pc = [t \in Threads |-> "idle"]
  /\ action = [t \in Threads |-> actionNone]
  /\ inflight = [tx |-> 0, nontx |-> 0]
  /\ probeHolds = FALSE
  /\ prevState = StateTransitioning
  /\ held = NotHeld
  /\ observed = [t \in Threads |-> NoObservation]
  /\ last = NoRequest
  /\ lameduck = 0
  /\ dbconfigs = [dbconfigs |-> "dbconfigs", mysqld |-> "mysqld"]
  /\ entry = [t \in Threads |-> NoEntry]
  /\ ret = NotRecorded
  /\ HealthInit
  /\ ExecInit

RoleChangeInit == ServingMaster /\ QueryTimeout = 0

RoleChangeCall ==
  /\ state = StateServing
  /\ target.TabletType = TabletType_MASTER
  /\ pc[1] = "idle"
  /\ \E allow \in AlsoAllowArgs : SetServingType(1, "REPLICA", TRUE, allow)

RoleChangeNext ==
  \/ RoleChangeCall
  \/ \E throttlerOk \in BOOLEAN : serveNewTypeBegin(1, throttlerOk)
  \/ serveNewTypeWait(1)
  \/ serveNewTypeClose(1)
  \/ \E call \in ClientCalls, caller \in RecordedCallers :
        StartRequest(call, caller.target, caller.local, TRUE)
  \/ \E isTx \in BOOLEAN, res \in ExecResults : EndRequest(isTx, res)

RoleChangeSpec == RoleChangeInit /\ [][RoleChangeNext]_vars

\* One ExecuteBatch call on a serving master, while a controller changes
\* the serving type or stops the service.
BatchTargets == {ServedTarget("MASTER")}

BatchNext ==
  \/ \E tgt \in BatchTargets, n \in 0..MaxQueries, asTransaction \in BOOLEAN,
        transactionID \in {0, 1} :
        ExecuteBatch(tgt, FALSE, n, asTransaction, transactionID)
  \/ \E res \in PoolResults : BatchBegin(res)
  \/ \E res \in PoolResults : BatchExecute(res)
  \/ \E res \in PoolResults : BatchCommit(res)
  \/ BatchRollback
  \/ BatchReturn
  \/ \E tabletType \in ServedTypes, serving \in BOOLEAN :
        SetServingType(1, tabletType, serving, {})
  \/ StopService(1)
  \/ ControllerStep(1)

BatchSpec == RoleChangeInit /\ [][BatchNext]_vars

\* A serving master with any query timeout: the controller, the probe,
\* clients and the timers of setTimeBomb, until log.Fatal ends the process.
QueryTimeouts == 0..MaxQueryTimeout

TimeBombInit == ServingMaster /\ QueryTimeout \in QueryTimeouts

TimeBombNext ==
  \/ ~Crashed /\ \E tabletType \in ServedTypes, serving \in BOOLEAN :
                    SetServingType(1, tabletType, serving, {})
  \/ ~Crashed /\ StopService(1)
  \/ ~Crashed /\ \E t \in Threads : ControllerStep(t)
  \/ ~Crashed /\ CheckMySQL
  \/ ~Crashed /\ \E reachable \in BOOLEAN : isMySQLReachable(reachable)
  \/ ~Crashed /\ probeStopService
  \/ ~Crashed /\ probeRelease
  \/ ~Crashed /\ \E call \in ClientCalls, caller \in ControlCallers :
                    StartRequest(call, caller.target, caller.local, FALSE)
  \/ ~Crashed /\ \E isTx \in BOOLEAN, res \in ExecResults :
                    EndRequest(isTx, res)
  \/ ~Crashed /\ \E t \in Threads : timeBombFires(t)

TimeBombSpec == TimeBombInit /\ [][TimeBombNext]_vars

\* One client that makes its requests through execRequest, and the
\* controller with one caller, on a serving master.
ExecCalls == [isTx : BOOLEAN, allowOnShutdown : BOOLEAN]

ExecRequestStep ==
  \/ \E tgt \in BatchTargets, call \in ExecCalls :
        execRequest(tgt, FALSE, call.isTx, call.allowOnShutdown)
  \/ \E e \in ExecErrors : execRequestExec("error", e)
  \/ \E res \in ExecResults \ {"error"} : execRequestExec(res, NoTabletError)
  \/ execRequestEnd
  \/ handlePanicAndSendLogStats

ExecNext ==
  \/ ExecRequestStep
  \/ \E tabletType \in ServedTypes, serving \in BOOLEAN :
        SetServingType(1, tabletType, serving, {})
  \/ StopService(1)
  \/ ControllerStep(1)

ExecSpec == RoleChangeInit /\ [][ExecNext]_vars

\* The deferred functions run, closures end, and the controller goes on.
FairExecSpec ==
  /\ ExecSpec
  /\ WF_vars(ExecRequestStep)
  /\ WF_vars(ControllerStep(1))

\* SetServingType(REPLICA, true) is running, resp. has returned.
RoleChangeRunning == pc[1] /= "idle"
RoleChangeReturned == pc[1] = "idle" /\ target.TabletType = "REPLICA"

\* What Begin, resp. a non-transactional Execute, would be answered now.
BeginResult(tgt, local) == startRequest(tgt, TRUE, FALSE, local)
ExecuteResult(tgt, local) == startRequest(tgt, FALSE, FALSE, local)

\* The role change up to its return: every Begin is denied while the call
\* runs, te is closed and the call returns only with no isTx request in
\* flight, and the call returns in SERVING.
RoleChangeDrains ==
  /\ RoleChangeRunning =>
       /\ state = TR
       /\ \A tgt \in RequestTargets, local \in BOOLEAN :
            BeginResult(tgt, local) /= OK
  /\ pc[1] = "serveClose" => observed[1].tx /\ txRequests = 0 /\ inflight.tx = 0
  /\ RoleChangeReturned =>
       /\ state = SV
       /\ "te" \notin open
       /\ ExecuteResult(ServedTarget("REPLICA"), FALSE) = OK

\* C7 as stated: after the role change has returned, Begin fails with
\* BAD_INPUT.
C7_BeginBadInput ==
  /\ RoleChangeDrains
  /\ RoleChangeReturned =>
       \A tgt \in RequestTargets \ {NilTarget}, local \in BOOLEAN :
         BeginResult(tgt, local) = BAD_INPUT

\* C7, amended: starting in SERVING as MASTER, SetServingType(REPLICA, true)
\* denies every Begin issued after it has started and before it returns,
\* and returns only after all in-flight transactional requests have ended;
\* after it returns the state is SERVING, a non-transactional Execute
\* addressed to the REPLICA role is admitted, and a Begin that carries a
\* target fails with QUERY_NOT_SERVED.
C7_RoleChange ==
  /\ RoleChangeDrains
  /\ RoleChangeReturned =>
       \A tgt \in RequestTargets \ {NilTarget}, local \in BOOLEAN :
         BeginResult(tgt, local) = QUERY_NOT_SERVED

\* The call waits for a transactional request that is in flight, and a
\* Begin issued meanwhile was denied.
C7_Witness ==
  /\ pc[1] = "serveWaitTx"
  /\ inflight.tx > 0
  /\ last.call.op = "Begin"
  /\ last.target = ServedTarget(TabletType_MASTER)
  /\ last.err = QUERY_NOT_SERVED

\* C8 as stated: an isTx request is admitted only when the role served is
\* MASTER, whoever the caller is; on another role it fails with
\* QUERY_NOT_SERVED and changes no counter.
C8_TxOnlyOnMaster ==
  [][AdmStep /\ IsTx(last'.call) =>
       /\ last'.err = OK => target.TabletType = TabletType_MASTER
       /\ target.TabletType /= TabletType_MASTER
            => last'.err = QUERY_NOT_SERVED /\ CountersUnchanged]_vars

\* C8, amended: an isTx request that carries a target is admitted only when
\* the role served is MASTER; on another role it fails with
\* QUERY_NOT_SERVED and changes no counter.  (The check is not made for a
\* process-local caller that passes a nil target.)
C8_TargetedTxOnlyOnMaster ==
  [][AdmStep /\ IsTx(last'.call) /\ last'.target /= NilTarget =>
       /\ last'.err = OK => target.TabletType = TabletType_MASTER
       /\ target.TabletType /= TabletType_MASTER
            => last'.err = QUERY_NOT_SERVED /\ CountersUnchanged]_vars

\* A Begin addressed to the served target was rejected by a serving replica.
C8_Witness ==
  /\ state = SV
  /\ target.TabletType = "REPLICA"
  /\ last.call.op = "Begin"
  /\ last.target = target
  /\ last.err = QUERY_NOT_SERVED

\* The target of a request matches what the controller serves.
TargetMatches(tgt) ==
  /\ tgt.Keyspace = target.Keyspace
  /\ tgt.Shard = target.Shard
  /\ tgt.TabletType = target.TabletType \/ tgt.TabletType \in alsoAllow

\* C9: a request with a non-nil target is admitted only if its keyspace and
\* shard are the controller's and its role is the controller's role or a
\* member of the also-allow list; otherwise startRequest fails with
\* QUERY_NOT_SERVED and changes neither the counters nor the state.
C9_TargetVerified ==
  [][AdmStep /\ last'.target /= NilTarget =>
       /\ last'.err = OK => TargetMatches(last'.target)
       /\ ~TargetMatches(last'.target)
            => /\ last'.err = QUERY_NOT_SERVED
               /\ CountersUnchanged
               /\ state' = state]_vars

\* A request for a role of the also-allow list was admitted by a master.
C9_Witness ==
  /\ last.err = OK
  /\ last.target /= NilTarget
  /\ last.target.TabletType /= target.TabletType
  /\ last.target.TabletType \in alsoAllow

\* C10: a request with a nil target is admitted only from a process-local
\* caller; from another caller it fails with QUERY_NOT_SERVED; and the
\* check of the state applies to a process-local caller too.
C10_NilTargetLocalOnly ==
  [][AdmStep /\ last'.target = NilTarget =>
       LET r == last' IN
       /\ r.err = OK => r.local
       /\ ~r.local => r.err = QUERY_NOT_SERVED /\ CountersUnchanged
       /\ r.err = OK =>
            \/ state = SV
            \/ state = SD /\ IssuedWithAllowOnShutdown(r.call)
       /\ state \notin {SV, SD} => r.err = QUERY_NOT_SERVED]_vars

\* A process-local request with a nil target was admitted.
C10_Witness ==
  /\ state = SV
  /\ last.target = NilTarget
  /\ last.local
  /\ last.call.op = "Execute"
  /\ last.err = OK

\* The step is the return of the drain that thread t ran for StopService.
StopServiceDrainReturns(t) ==
  /\ pc[t] = "drainFinish"
  /\ pc'[t] /= pc[t]
  /\ action[t] = "StopService"

\* C11 as stated: after any call of StopService has returned the state is
\* NOT_CONNECTED, whatever state the call was made in.
C11_AlwaysNotConnected ==
  ret.op = "StopService" => state = NC

\* C11, amended: a StopService called in SERVING or NOT_SERVING goes
\* SHUTTING_DOWN -> NOT_CONNECTED after the drain and has closed the query
\* engine when it returns; called in NOT_CONNECTED it returns at once and
\* changes nothing (it is idempotent); called in TRANSITIONING or
\* SHUTTING_DOWN it also returns at once and changes nothing, so that the
\* controller is still in that state.
C11_StopService ==
  [][ret'.op = "StopService" =>
       IF \E t \in Threads : StopServiceDrainReturns(t)
         THEN /\ ret'.fromState \in {SV, NS}
              /\ state = SD
              /\ state' = NC
              /\ "qe" \notin open'
         ELSE /\ ret'.fromState = state
              /\ state \in {NC, TR, SD}
              /\ UNCHANGED <<state, target, alsoAllow, open, requests,
                             txRequests, lameduck>>]_vars

\* A StopService called in SERVING has returned.
C11_Witness ==
  /\ ret.op = "StopService"
  /\ ret.fromState = SV
  /\ state = NC
  /\ prevState = SD

\* A StopService called in NOT_CONNECTED has returned at once.
C11_WitnessIdempotent ==
  /\ ret.op = "StopService"
  /\ ret.fromState = NC
  /\ target /= ZeroTarget

\* C12: the state the controller takes next after TRANSITIONING is SERVING
\* or a stopped state (NOT_SERVING at the end of a MySQL probe,
\* NOT_CONNECTED after closeAll), never SHUTTING_DOWN; and under fairness
\* every TRANSITIONING is eventually left.
C12_TransitioningIsLeft ==
  /\ [][state = TR /\ state' /= TR => state' \in {SV, NS, NC}]_vars
  /\ (state = TR) ~> (state /= TR)

\* A start that failed has left TRANSITIONING through closeAll.
C12_Witness ==
  /\ prevState = TR
  /\ state = NC
  /\ open = {}

\* The step is a call of SetServingType that returns at once, resp. one
\* that starts a long operation.
SetServingTypeReturnsAtOnce == ret'.op = "SetServingType" /\ pc' = pc
SetServingTypeStarts ==
  \E t \in Ctl : entry[t] = NoEntry /\ entry'[t] /= NoEntry
                 /\ action'[t] /= "StopService"

\* The call failed with INTERNAL_ERROR and did nothing to the state or to
\* the sub-services.
FailedFast ==
  /\ ret'.err = INTERNAL_ERROR
  /\ ret'.stateChanged = FALSE
  /\ state' = state
  /\ open' = open
  /\ action' = action
  /\ CountersUnchanged

\* C13: SetServingType called in TRANSITIONING or SHUTTING_DOWN fails at
\* once with INTERNAL_ERROR and starts no transition: the state is unchanged
\* and no sub-service is opened or closed.
C13_BusyFailsFast ==
  [][(state = TR \/ state = SD) =>
       /\ ~SetServingTypeStarts
       /\ SetServingTypeReturnsAtOnce => FailedFast]_vars

\* A SetServingType called during a drain has failed.
C13_Witness ==
  /\ ret.op = "SetServingType"
  /\ ret.err = INTERNAL_ERROR
  /\ ret.fromState = SD
  /\ state = SD
  /\ \E t \in Threads : pc[t] = "drainWaitReq"

\* Thread t starts a long operation for SetServingType(tabletType, serving).
SetServingTypeStartsWith(t, tabletType, serving) ==
  /\ entry[t] = NoEntry
  /\ entry'[t] /= NoEntry
  /\ action'[t] /= "StopService"
  /\ entry'[t].tabletType = tabletType
  /\ entry'[t].serving = serving

\* The call returned (false, nil) and left the state, the target, the
\* sub-services and the requests in flight as they were.
NoneTaken ==
  /\ ret'.stateChanged = FALSE
  /\ ret'.err = OK
  /\ state' = state
  /\ target' = target
  /\ open' = open
  /\ pc' = pc
  /\ inflight' = inflight
  /\ CountersUnchanged

\* C14: SetServingType(role, true) called in SERVING with the role that is
\* served is the action none: no transition is started, the state and the
\* target are unchanged, no request in flight is disturbed, and the call
\* returns stateChanged = false without an error.
C14_SameRoleIsNone ==
  [][(state = SV) =>
       /\ \A t \in Ctl : ~SetServingTypeStartsWith(t, target.TabletType, TRUE)
       /\ (SetServingTypeReturnsAtOnce /\ ret'.tabletType = target.TabletType
           /\ ret'.serving) => NoneTaken]_vars

\* The call returned while a transaction request was in flight.
C14_Witness ==
  /\ ret.op = "SetServingType"
  /\ ret.fromState = SV
  /\ ret.tabletType = target.TabletType
  /\ ret.serving
  /\ ret.stateChanged = FALSE
  /\ state = SV
  /\ inflight.tx > 0

\* What InitDBConfig records for the role tabletType.
RecordedTarget(tabletType) ==
  [Keyspace |-> InitKeyspace, Shard |-> InitShard, TabletType |-> tabletType]
RecordedDBConfigs == [dbconfigs |-> "dbconfigs", mysqld |-> "mysqld"]

\* C15: InitDBConfig succeeds only in NOT_CONNECTED, where it records the
\* target, the credentials and the daemon; in any other state it fails and
\* leaves the target, the credentials and the state unchanged.
C15_InitDBConfig ==
  [][ret'.op = "InitDBConfig" =>
       /\ state' = state
       /\ ret'.err = OK <=> state = NC
       /\ state = NC => /\ target' = RecordedTarget(ret'.tabletType)
                        /\ dbconfigs' = RecordedDBConfigs
       /\ state /= NC => UNCHANGED <<target, dbconfigs>>]_vars

\* InitDBConfig has failed on a serving controller.
C15_Witness ==
  /\ ret.op = "InitDBConfig"
  /\ ret.err = UNKNOWN_ERROR
  /\ state = SV
  /\ ret.tabletType /= target.TabletType

\* A step that changes the lameduck flag and nothing else of the server.
LameduckFlip == lameduck' /= lameduck /\ UNCHANGED coreVars

\* What the server would answer and do in the current state: the result of
\* startRequest for every request, the decision of decideAction for every
\* call of SetServingType, and which steps of the controller can be taken.
AdmissionAnswers ==
  [call \in ClientCalls, tgt \in RequestTargets, local \in BOOLEAN |->
     startRequest(tgt, IsTx(call), AllowOnShutdown(call), local)]
ControllerDecisions ==
  [tabletType \in ServedTypes, serving \in BOOLEAN |->
     decideAction(tabletType, serving)]
ControllerCanStep == ENABLED ControllerStep(1)
StopServiceEnters == state = StateServing \/ state = StateNotServing

\* C16: the lameduck flag does not change request behaviour.  Two runs that
\* differ only in EnterLameduck / ExitLameduck are compared at the step
\* where they differ: a change of the flag changes no admission outcome or
\* error, no counter, no decision of the controller and no state
\* transition it can take; and a request is admitted in lameduck mode as
\* out of it (the flag is not changed by admission).
C16_LameduckIsHealthOnly ==
  [][/\ LameduckFlip =>
          /\ AdmissionAnswers' = AdmissionAnswers
          /\ ControllerDecisions' = ControllerDecisions
          /\ ControllerCanStep' = ControllerCanStep
          /\ StopServiceEnters' = StopServiceEnters
          /\ CountersUnchanged
     /\ AdmStep =>
          /\ lameduck' = lameduck
          /\ last'.err = AdmissionAnswers[last'.call, last'.target, last'.local]
    ]_vars

\* A request was admitted in lameduck mode, where GetState says NOT_SERVING.
C16_Witness ==
  /\ lameduck = 1
  /\ state = SV
  /\ GetState = "NOT_SERVING"
  /\ last.call.op = "Begin"
  /\ last.err = OK

\* C17: GetState is NOT_SERVING whenever lameduck is set; with lameduck
\* clear it is SERVING exactly in SERVING, SHUTTING_DOWN exactly in
\* SHUTTING_DOWN, and NOT_SERVING in NOT_CONNECTED, NOT_SERVING and
\* TRANSITIONING.  IsServing holds iff the state is SERVING and lameduck
\* is clear.
C17_GetState ==
  /\ lameduck /= 0 => GetState = "NOT_SERVING"
  /\ lameduck = 0 =>
       /\ GetState = "SERVING" <=> state = StateServing
       /\ GetState = "SHUTTING_DOWN" <=> state = StateShuttingDown
       /\ state \in {StateNotConnected, StateNotServing, StateTransitioning}
            => GetState = "NOT_SERVING"
  /\ IsServing <=> (state = StateServing /\ lameduck = 0)

\* Lameduck hides a state that is SERVING, and one that is SHUTTING_DOWN.
C17_Witness ==
  /\ lameduck = 1
  /\ state = StateShuttingDown
  /\ GetState = "NOT_SERVING"
  /\ ~IsServing

\* C18: when SetServingType returns, whether it performed a transition,
\* decided none or failed, the lameduck flag is clear.
C18_SetServingTypeExitsLameduck ==
  ret.op = "SetServingType" => lameduck = 0

\* SetServingType returned while the server was in lameduck mode: after a
\* transition, after deciding none, and after failing.
C18_Witness ==
  /\ ret.op = "SetServingType"
  /\ ret.wasLameduck = 1
  /\ ret.err = OK
  /\ ret.stateChanged
  /\ lameduck = 0
C18_WitnessNone ==
  /\ ret.op = "SetServingType"
  /\ ret.wasLameduck = 1
  /\ ret.err = OK
  /\ ~ret.stateChanged
C18_WitnessFailed ==
  /\ ret.op = "SetServingType"
  /\ ret.wasLameduck = 1
  /\ ret.err = INTERNAL_ERROR

\* C19: SetServingType returns stateChanged = TRUE if the serving state or
\* the tablet type changed as a result of the call, for every starting
\* state and every (tabletType, serving).  The code does not do so:
\* decideAction assigns target.TabletType before it looks at the state, and
\* SetServingType returns FALSE on actionNone and on the error of
\* decideAction, so SetServingType(MASTER, FALSE) on a REPLICA that is
\* NOT_SERVING changes the tablet type and returns FALSE.
C19_StateChangedReported ==
  (/\ ret.op = "SetServingType"
   /\ \/ ret.fromState /= state
      \/ ret.fromRole /= target.TabletType)
    => ret.stateChanged

\* The channels BroadcastHealth has still to visit in its range.
ToVisit == IF bh.pc = "send" THEN bh.todo ELSE {}

\* What a non-blocking send of shr does to a channel: the response is put
\* on it if it has free capacity, and dropped if it is full.
TrySend(ch, shr) ==
  IF Len(ch) < StreamHealthBuffer THEN Append(ch, shr) ELSE ch

\* The visit of channel id put the response on it or dropped it, and
\* touched no other channel.
Visited(id) ==
  /\ streamHealthMap'[id] = TrySend(streamHealthMap[id], bh.shr)
  /\ \A other \in DOMAIN streamHealthMap \ {id} :
        streamHealthMap'[other] = streamHealthMap[other]
  /\ bh'.todo = bh.todo \ {id}

\* BroadcastHealth can always take its next step: visit any channel that
\* is left, full or not, and return when none is left.
NeverBlocked ==
  /\ \A id \in ToVisit : ENABLED BroadcastHealthSend(id)
  /\ (bh.pc = "send" /\ bh.todo = {}) => ENABLED BroadcastHealthStore
  /\ bh.pc = "Lock" => ENABLED BroadcastHealthLock

\* C20: BroadcastHealth never blocks on a subscriber.  Every channel of the
\* map is visited with a send that cannot block: the snapshot is put on a
\* channel with free capacity and dropped for a full one, no other channel
\* is affected, the next step is always possible whatever the subscribers
\* do, and every call completes, with its snapshot as the last one.
C20_BroadcastNeverBlocks ==
  /\ [][\A id \in ToVisit : id \notin bh'.todo => Visited(id)]_vars
  /\ []NeverBlocked
  /\ (bh.pc /= "idle") ~>
       (bh.pc = "idle" /\ lastStreamHealthResponse = bh.shr)

\* A broadcast has completed that was dropped for a subscriber whose
\* channel is full and delivered to another subscriber.
C20_Witness ==
  /\ bh.pc = "idle"
  /\ lastStreamHealthResponse /= NilResponse
  /\ \E slow, other \in DOMAIN streamHealthMap :
        /\ Len(streamHealthMap[slow]) = StreamHealthBuffer
        /\ streamHealthMap[slow][StreamHealthBuffer] /= lastStreamHealthResponse
        /\ streamHealthMap[other] /= <<>>
        /\ streamHealthMap[other][Len(streamHealthMap[other])]
             = lastStreamHealthResponse

\* The k-th snapshot that was broadcast, on a server whose controller is
\* idle.
Broadcast(k) == [Serial |-> k, Target |-> target, Serving |-> IsServing]

\* seq holds snapshots that were broadcast, in the order of their
\* broadcast, none of them twice.
InBroadcastOrder(seq) ==
  /\ \A i \in 1..Len(seq) :
        seq[i].Serial \in 1..bh.count /\ seq[i] = Broadcast(seq[i].Serial)
  /\ \A i, j \in 1..Len(seq) : i < j => seq[i].Serial < seq[j].Serial

\* C21: what a subscriber's callback has seen, the last-known snapshot
\* delivered before subscribing included, is a subsequence of the
\* broadcast snapshots in broadcast order: never reordered, never twice.
C21_Subsequence ==
  \A c \in StreamCallers : InBroadcastOrder(sh[c].received)

\* A subscriber has seen snapshots 1 to 10 and 12: snapshot 11 was dropped
\* on its full channel.
C21_Witness ==
  /\ Len(sh[1].received) = 11
  /\ sh[1].received[1].Serial = 1
  /\ sh[1].received[10].Serial = 10
  /\ sh[1].received[11].Serial = 12

\* The StreamHealth call of c had subscribed and has returned, so that its
\* streamHealthUnregister has returned.
Unsubscribed(c) == sh[c].pc = "returned" /\ sh[c].id /= -1

\* C22: after streamHealthUnregister(id) has returned, no BroadcastHealth
\* writes to that channel again: the channel is in the map no more, a
\* BroadcastHealth that is running has it not among the channels it still
\* visits, and its id is given to no other subscriber.
C22_NoWriteAfterUnsubscribe ==
  /\ ToVisit \subseteq DOMAIN streamHealthMap
  /\ \A c \in StreamCallers :
        Unsubscribed(c) =>
          /\ sh[c].id \notin DOMAIN streamHealthMap
          /\ sh[c].id \notin ToVisit
          /\ sh[c].id < streamHealthIndex
          /\ \A d \in StreamCallers \ {c} : sh[d].id /= sh[c].id

\* A subscriber that was sent a snapshot has unsubscribed, and a
\* BroadcastHealth is in its range over the channels that are left.
C22_Witness ==
  /\ Unsubscribed(1)
  /\ sh[1].received /= <<>>
  /\ bh.pc = "send"
  /\ bh.todo /= {}

\* The snapshots from..to, in the order of their broadcast.
Broadcasts(from, to) == [i \in 1..(to - from + 1) |-> Broadcast(from + i - 1)]

\* The fast subscriber has been handed every snapshot broadcast so far, in
\* order: what its callback has seen and what waits on its channel are the
\* snapshots 1..n, n the number of broadcasts that have reached it.
FastMissesNone ==
  sh[FastSubscriber].pc = "streaming" =>
    LET seen == sh[FastSubscriber].received
                  \o streamHealthMap[sh[FastSubscriber].id]
    IN  /\ seen = Broadcasts(1, Len(seen))
        /\ Len(seen) >= lastStreamHealthResponse.Serial
        /\ Len(seen) <= bh.count

\* The slow subscriber holds a run of consecutive snapshots, at most
\* StreamHealthBuffer of them, and while there is room its newest is the
\* latest one broadcast: the later ones were dropped.
SlowHoldsFirstTen ==
  sh[SlowSubscriber].pc = "streaming" =>
    LET ch == streamHealthMap[sh[SlowSubscriber].id]
    IN  /\ Len(ch) <= StreamHealthBuffer
        /\ ch /= <<>> => ch = Broadcasts(ch[1].Serial,
                                         ch[1].Serial + Len(ch) - 1)
        /\ (ch /= <<>> /\ Len(ch) < StreamHealthBuffer /\ bh.pc = "idle")
             => ch[Len(ch)] = lastStreamHealthResponse

\* C23: a channel never holds more than 10 undelivered snapshots.  With two
\* subscribers of which one never reads, after the broadcasts the
\* subscriber that reads each snapshot before the next broadcast has
\* received all of them in order, the one that never reads holds at most
\* 10, the first ones broadcast after it subscribed, and no broadcast was
\* ever blocked.
C23_TwoSubscribers ==
  /\ \A id \in DOMAIN streamHealthMap :
        Len(streamHealthMap[id]) <= StreamHealthBuffer
  /\ FastMissesNone
  /\ SlowHoldsFirstTen
  /\ NeverBlocked
  /\ (bh.count = ScenarioBroadcasts /\ bh.pc = "idle" /\ FastHasRead)
       => sh[FastSubscriber].received = Broadcasts(1, ScenarioBroadcasts)

\* After 20 broadcasts the fast subscriber has received 20 snapshots and
\* the slow one, subscribed before the first broadcast, holds 1 to 10.
C23_Witness ==
  /\ bh.count = 20
  /\ bh.pc = "idle"
  /\ Len(sh[FastSubscriber].received) = 20
  /\ sh[FastSubscriber].received[20].Serial = 20
  /\ sh[SlowSubscriber].pc = "streaming"
  /\ Len(streamHealthMap[sh[SlowSubscriber].id]) = 10
  /\ streamHealthMap[sh[SlowSubscriber].id][1].Serial = 1
  /\ streamHealthMap[sh[SlowSubscriber].id][10].Serial = 10

\* The channel of the subscription of c.
Channel(c) == streamHealthMap[sh[c].id]

\* What the steps of the StreamHealth call of c do: the last response is
\* read and, if there is one, delivered first; each response taken from
\* the channel is delivered; nothing else is; and a cancelled context
\* returns nil.
StreamHealthForwards(c) ==
  /\ (sh[c].pc = "idle" /\ sh'[c].pc = "first")
       => sh'[c].shr = lastStreamHealthResponse
  /\ (sh[c].pc = "first" /\ sh'[c].pc /= "first")
       => /\ sh'[c].received =
               IF sh[c].shr = NilResponse
                 THEN sh[c].received
                 ELSE Append(sh[c].received, sh[c].shr)
          /\ sh[c].shr = NilResponse => sh'[c].pc = "Register"
  /\ (sh[c].pc = "streaming" /\ sh'[c].pc = "streaming"
        /\ Len(Channel(c)') < Len(Channel(c)))
       => /\ Channel(c)' = Tail(Channel(c))
          /\ sh'[c].received = Append(sh[c].received, Head(Channel(c)))
  /\ (sh[c].pc = "streaming" /\ sh'[c].pc = "Unregister")
       => \/ sh'[c].received = sh[c].received /\ sh'[c].err = "none"
          \/ /\ Channel(c) /= <<>>
             /\ sh'[c].received = Append(sh[c].received, Head(Channel(c)))
  /\ sh'[c].received /= sh[c].received
       => sh[c].pc \in {"first", "streaming"}

\* Where the StreamHealth call of c is, and what it returns: it goes on
\* only while the callback returns nil and forwards only while it is
\* subscribed; it returns nil after EOF and the error after any other
\* error; when it has returned, its subscription is not in the map.
StreamHealthReturns(c) ==
  /\ sh[c].pc \in {"Register", "streaming"} =>
       sh[c].res \in {"none", "nil"} /\ sh[c].err = "none"
  /\ sh[c].pc = "streaming" => sh[c].id \in DOMAIN streamHealthMap
  /\ sh[c].pc \in {"Unregister", "returned"} =>
       sh[c].err = IF sh[c].res = "error" THEN "error" ELSE "none"
  /\ sh[c].pc = "returned" => sh[c].id \notin DOMAIN streamHealthMap

\* C24: StreamHealth first delivers the last-known snapshot if there is
\* one, then subscribes and forwards every snapshot it receives until the
\* context is cancelled or the callback returns EOF, returning nil in both
\* cases; another error of the callback is returned as is; whenever it
\* returns, its subscription is removed from the map.
C24_StreamHealth ==
  /\ [][\A c \in StreamCallers : StreamHealthForwards(c)]_vars
  /\ [](\A c \in StreamCallers : StreamHealthReturns(c))

\* A call was given the last-known snapshot, subscribed, forwarded a
\* snapshot for which the callback returned EOF, and returned nil.
C24_Witness ==
  /\ sh[1].pc = "returned"
  /\ sh[1].id /= -1
  /\ sh[1].res = "EOF"
  /\ sh[1].err = "none"
  /\ Len(sh[1].received) = 2
  /\ sh[1].received[1].Serial = 1

\* The number of BroadcastHealth calls that have returned.
BroadcastsDone ==
  IF bh.pc \in {"idle", "IsServing"} THEN bh.count ELSE bh.count - 1

\* A StreamHealth call reads the last-known snapshot when it starts, and
\* that snapshot is the first thing its callback is given.
DeliversLastKnownFirst(c) ==
  /\ (sh[c].pc = "idle" /\ sh'[c].pc = "first")
       => sh'[c].shr = lastStreamHealthResponse
  /\ (sh[c].pc = "first" /\ sh'[c].pc /= "first" /\ sh[c].shr /= NilResponse)
       => sh'[c].received = <<sh[c].shr>>

\* C25: there is one last-known snapshot; after every BroadcastHealth it is
\* the snapshot built by the most recent one, dropped for a subscriber or
\* not; it is empty only before the first BroadcastHealth has returned;
\* and a StreamHealth that starts afterwards delivers exactly it first.
C25_LastKnown ==
  /\ [](lastStreamHealthResponse =
          IF BroadcastsDone = 0 THEN NilResponse
                                ELSE Broadcast(BroadcastsDone))
  /\ [][bh.pc = "send" /\ bh'.pc = "idle"
          => lastStreamHealthResponse' = bh.shr]_vars
  /\ [][\A c \in StreamCallers : DeliversLastKnownFirst(c)]_vars

\* Snapshot 11 was dropped on the full channel of the subscriber that
\* never reads, is the last-known one, and was the first thing delivered
\* to a StreamHealth that started afterwards.
C25_Witness ==
  /\ lastStreamHealthResponse.Serial = 11
  /\ sh[SlowSubscriber].pc = "streaming"
  /\ Len(Channel(SlowSubscriber)) = StreamHealthBuffer
  /\ Channel(SlowSubscriber)[StreamHealthBuffer].Serial = 10
  /\ sh[FastSubscriber].received = <<lastStreamHealthResponse>>

\* C26: ExecuteBatch with asTransaction opens one implicit transaction,
\* executes the queries in order and commits; if a query or the commit fails
\* it returns no results and the transaction is rolled back; in every case
\* and for every interleaving with the controller, when ExecuteBatch
\* returns the implicit transaction is no longer open.  The code does not
\* do so: the deferred Rollback is a request of its own, which startRequest
\* refuses while the state is TRANSITIONING, and a Commit that is refused
\* sets transactionID to 0, so that no Rollback is tried.
C26_ImplicitTxConcluded ==
  batch.pc = "returned" =>
    /\ batch.begins <= 1
    /\ ~ImplicitTxOpen
    /\ batch.err /= "none" => batch.results = 0

\* The arguments a call of ExecuteBatch was made with are refused: no
\* query, or asTransaction with a transaction id.
BadBatch(b) ==
  b.queries = 0 \/ (b.asTransaction /\ b.transactionID /= 0)

\* C27: ExecuteBatch with an empty query list, or with asTransaction and a
\* non-zero transaction id, fails with BAD_INPUT before admission, in every
\* state of the server: no counter is incremented, no transaction is begun
\* and no query is executed.
C27_BatchBadInput ==
  [][(batch.pc = "idle" /\ batch'.pc /= "idle" /\ BadBatch(batch'))
       => /\ batch'.pc = "returned"
          /\ batch'.err = BAD_INPUT
          /\ requests' = requests
          /\ txRequests' = txRequests
          /\ batch'.begins = 0
          /\ batch'.tx = "none"
          /\ batch'.executed = 0]_vars

\* A batch of queries with asTransaction and a transaction id was refused
\* by a serving master.
C27_Witness ==
  /\ batch.pc = "returned"
  /\ batch.err = BAD_INPUT
  /\ batch.queries > 0
  /\ batch.asTransaction
  /\ batch.transactionID = 1
  /\ state = StateServing
  /\ requests = 0

\* C28: in terse-errors mode, for a request with bind variables, the
\* message returned to the caller holds no byte of a bind variable, on
\* every error path (MySQL errors, engine errors without an SQL error
\* code, recovered panics); only the failover sentinel is kept verbatim.
\* The code does not do so: handleError strips the message only if the
\* error has an SQL error code, and the message of a recovered panic is
\* made from the query and its bind variables.
C28_TerseHidesBindVars ==
  (/\ he.pc = "returned"
   /\ he.terse
   /\ he.bindVariables /= 0
   /\ he.out.Message /= FailoverMessage)
    => ~he.out.Message.fromBindVars

\* The request whose closure panicked has returned.
PanicReturned == xr.pc = "returned" /\ xr.res = "panic"

\* The controller is in a drain (waitForShutdown).
Draining ==
  pc[1] \in {"waitForShutdown", "drainWaitTx", "drainCloseTx", "drainWaitReq",
             "drainFinish"}

\* C29: a request whose closure panics returns UNKNOWN_ERROR, with the
\* error attached to its log statistics, which were sent exactly once, and
\* with its slots released exactly once: both counters are back at zero;
\* and a drain that runs after a panic does not last.
C29_PanicRecovered ==
  /\ [](PanicReturned =>
          /\ xr.err = UNKNOWN_ERROR
          /\ xr.logError = UNKNOWN_ERROR
          /\ xr.sends = 1
          /\ xr.released = 1
          /\ requests = 0
          /\ txRequests = 0)
  /\ [](xr.pc = "returned" => xr.sends = 1)
  /\ (xr.res = "panic" /\ Draining) ~> ~Draining

\* A transactional request panicked and returned, and the drain that was
\* waiting for it is over.
C29_Witness ==
  /\ PanicReturned
  /\ xr.isTx
  /\ prevState = SD
  /\ state = NS

\* A probe is in progress, or in its cool-down: the goroutine of CheckMySQL
\* has not released the throttler.
ProbeInProgress == pc[Probe] /= "idle"

\* The step starts a probe.
ProbeStarts == checkMySQLThrottler' > checkMySQLThrottler

\* The step is the probe's call of StopService after a failed probe:
\* StopService enters its drain, or finds nothing to stop.
ProbeInvokesStopService ==
  \/ /\ state \in {StateServing, StateNotServing}
     /\ state' = StateShuttingDown
     /\ action'[Probe] = "StopService"
     /\ pc'[Probe] = "waitForShutdown"
  \/ /\ state \notin {StateServing, StateNotServing}
     /\ state' = state
     /\ pc'[Probe] = "probeSleep"

\* The step ends a probe that found MySQL reachable.
ProbeFoundReachable ==
  /\ pc[Probe] \in {"idle", "probeServing", "probeNotServing"}
  /\ pc'[Probe] = "probeSleep"

\* C30: at most one probe is in progress at any time; CheckMySQL starts a
\* probe only when none is in progress or cooling down; after a failed
\* probe the goroutine's next step is StopService; a probe that finds
\* MySQL reachable leaves the state as it found it (StateNotServing is
\* restored from StateTransitioning, which nobody else leaves meanwhile).
C30_CheckMySQL ==
  /\ [](checkMySQLThrottler <= CheckMySQLSlots)
  /\ [](ProbeInProgress <=> checkMySQLThrottler = CheckMySQLSlots)
  /\ [][ProbeStarts => ~ProbeInProgress]_vars
  /\ [][ProbeInProgress /\ checkMySQLThrottler' = checkMySQLThrottler
          => (pc[Probe] = "idle") = (pc'[Probe] = "idle")]_vars
  /\ [][pc[Probe] = "probeStop" /\ pc'[Probe] /= "probeStop"
          => ProbeInvokesStopService]_vars
  /\ [](pc[Probe] = "probeNotServing" => state = StateTransitioning)
  /\ [][ProbeFoundReachable
          => state' = IF pc[Probe] = "probeNotServing" THEN StateNotServing
                                                       ELSE state]_vars
  /\ [][pc[Probe] = "idle" /\ pc'[Probe] = "probeServing"
          => state' = state]_vars

\* A probe failed and its StopService is draining, the throttler held.
C30_Witness ==
  /\ pc[Probe] = "drainWaitReq"
  /\ action[Probe] = "StopService"
  /\ state = StateShuttingDown
  /\ checkMySQLThrottler = CheckMySQLSlots

\* A probe that found StateNotServing ended with MySQL reachable.
C30_WitnessReachable ==
  /\ pc[Probe] = "probeSleep"
  /\ prevState = StateTransitioning
  /\ state = StateNotServing

\* Thread t runs a graceful stop or the drain of StopService.
InDrain(t) ==
  pc[t] \in {"waitForShutdown", "drainWaitTx", "drainCloseTx", "drainWaitReq",
             "drainFinish"}

\* The guard of thread t's call is armed: its timer can expire.
TimeBombArmed(t) == timeBomb[t].pc = "select"

\* C31: with a query timeout other than zero the guard is armed, at ten
\* times the timeout, exactly while the graceful stop or StopService that
\* set it is running, so that its expiry then ends the process, and after
\* the drain has finished it cannot fire; with a query timeout of zero no
\* guard is ever armed and none fires.
C31_TimeBomb ==
  /\ [](\A t \in Threads :
          ~Crashed =>
            /\ TimeBombArmed(t) <=> (QueryTimeout /= 0 /\ InDrain(t))
            /\ TimeBombArmed(t) => timeBomb[t].timer = 10 * QueryTimeout
            /\ TimeBombArmed(t) => ENABLED timeBombFires(t))
  /\ [][\A t \in Threads :
          timeBomb'[t].pc = "fatal" /\ timeBomb[t].pc /= "fatal"
            => QueryTimeout /= 0 /\ InDrain(t) /\ state = StateShuttingDown]_vars
  /\ [](QueryTimeout = 0 => \A t \in Threads : timeBomb[t] = NoTimeBomb)

\* The guard fired while the drain of a graceful stop was waiting for a
\* request.
C31_Witness ==
  /\ timeBomb[1].pc = "fatal"
  /\ pc[1] = "drainWaitReq"
  /\ action[1] = actionGracefulStop
  /\ requests > 0

\* A drain finished with the guard armed, and the guard is disarmed.
C31_WitnessDisarmed ==
  /\ QueryTimeout /= 0
  /\ prevState = StateShuttingDown
  /\ state = StateNotServing
  /\ timeBomb[1] = NoTimeBomb

\* The arguments that the specification says are refused.
SplitQueryBadInput(q) ==
  \/ q.target.TabletType /= "RDONLY"
  \/ q.splitCount < 0
  \/ q.numRowsPerQueryPart < 0
  \/ (q.splitCount = 0 /\ q.numRowsPerQueryPart = 0)
  \/ (q.splitCount /= 0 /\ q.numRowsPerQueryPart /= 0)
  \/ q.algorithm \notin {"EQUAL_SPLITS", "FULL_SCAN"}

\* C32: validateSplitQueryParameters returns BAD_INPUT exactly for the
\* arguments listed and accepts every other input, and createSplitParams
\* is reached only with exactly one of the two counts non-zero: it never
\* takes its panic branch.
C32_SplitQueryValidation ==
  sq.pc = "returned" =>
    /\ sq.err = BAD_INPUT <=> SplitQueryBadInput(sq)
    /\ sq.err \in {BAD_INPUT, OK}
    /\ sq.err = BAD_INPUT => sq.splitParams = "none"
    /\ sq.err = OK =>
         /\ (sq.splitCount /= 0) /= (sq.numRowsPerQueryPart /= 0)
         /\ sq.splitParams \in {"NewSplitParamsGivenNumRowsPerQueryPart",
                                "NewSplitParamsGivenSplitCount"}

\* An accepted request with a split count, and createSplitParams reached.
C32_Witness ==
  /\ sq.pc = "returned"
  /\ sq.err = OK
  /\ sq.splitCount > 0
  /\ sq.splitParams = "NewSplitParamsGivenSplitCount"

\* C33: each NEXTVAL request returns the first id of a block of n ids that
\* starts where the block before it ended at the earliest, every id of
\* the block is below the on-disk next_id, a request that fits in the
\* window reads and updates nothing, and any other request makes one
\* for-update read and one update that advance next_id by the smallest
\* multiple of cache that covers the block.
C33_Nextval ==
  nv.pc = "returned" =>
    /\ nv.ret >= nv.prevEnd
    /\ nv.ret >= 1
    /\ nv.NextVal = nv.ret + nv.n
    /\ nv.ret + nv.n =< nv.next_id
    /\ nv.LastVal = nv.next_id
    /\ IF nv.reads = 0
         THEN /\ nv.updates = 0
              /\ nv.next_id = nv.prevNextId
              /\ nv.ret = nv.prevEnd
         ELSE /\ nv.reads = 1
              /\ nv.updates = 1
              /\ \E k \in 1..MaxNextId :
                    /\ nv.next_id = nv.prevNextId + k * nv.cache
                    /\ k > 1 => nv.next_id - nv.cache < nv.ret + nv.n
    /\ (nv.reads = 0) <=> (nv.prevEnd /= 0 /\ nv.prevEnd + nv.n =< nv.prevNextId)

\* A request jumped more than one cache range, as the last request of
\* TestQueryExecutorPlanNextval does.
C33_Witness ==
  /\ nv.pc = "returned"
  /\ nv.reads = 1
  /\ nv.cache = 3
  /\ nv.next_id = nv.prevNextId + 2 * nv.cache
  /\ nv.prevEnd /= 0

\* A request was served from the window.
C33_WitnessFits ==
  /\ nv.pc = "returned"
  /\ nv.reads = 0
  /\ nv.ret > 1

\* Thread t runs a long operation: a full start, a serve-new-type, a
\* graceful stop, the drain of StopService, or the probe that found
\* StateNotServing.
LongOperation(t) ==
  pc[t] \notin {"idle", "probeServing", "probeStop", "probeSleep"}

Transient == state \in {StateTransitioning, StateShuttingDown}

\* C34: at most one long operation is in progress at any time, and one is
\* in progress exactly while the state is transient; while it runs the
\* mutex is free, so that a SetServingType call gets its answer; and the
\* step that leaves a transient state is a step of the thread whose
\* operation entered it.
C34_Serialized ==
  /\ [](Cardinality({t \in Threads : LongOperation(t)}) =< 1)
  /\ [](Transient <=> \E t \in Threads : LongOperation(t))
  /\ []((\E t \in Threads : LongOperation(t))
          => ENABLED SetServingType(1, TabletType_MASTER, TRUE, {}))
  /\ [][Transient /\ state' /= state
          => \E t \in Threads :
                /\ LongOperation(t)
                /\ pc'[t] /= pc[t]
                /\ \A u \in Threads \ {t} : pc'[u] = pc[u]]_vars

\* A drain is in progress while a failed probe is about to call
\* StopService.
C34_Witness ==
  /\ pc[Probe] = "probeStop"
  /\ LongOperation(1)
  /\ state = StateShuttingDown

\* The step is a call of SetServingType that fails because the state is
\* StateTransitioning or StateShuttingDown.
SetServingTypeRefused ==
  /\ Transient
  /\ ret'.op = "SetServingType"
  /\ ret'.err = INTERNAL_ERROR

\* C35: a SetServingType call that fails because the state is transient
\* leaves the target role and the also-allow list as they were.  The code
\* does not do so: decideAction assigns both before it looks at the state.
C35_RefusedCallKeepsAdmissionData ==
  [][SetServingTypeRefused
       => target' = target /\ alsoAllow' = alsoAllow]_vars

\* The step closes the query engine, resp. the tx engine.
QeCloses == "qe" \in open /\ "qe" \notin open'
TeCloses == "te" \in open /\ "te" \notin open'

\* C36: when qe.Close or te.Close runs, no request admitted earlier that
\* uses the engine is in flight: none at all for the query engine, none
\* with isTx for the tx engine.  The code does not ensure it: closeAll
\* waits for no counter, and Commit is admitted after txRequests.Wait().
C36_EnginesClosedWhenUnused ==
  [][/\ QeCloses => inflight.tx + inflight.nontx = 0
     /\ TeCloses => inflight.tx = 0]_vars

\* A drain has closed the tx engine and has not finished.
TxEngineClosedByDrain ==
  /\ state = StateShuttingDown
  /\ "te" \notin open
  /\ \E t \in Threads : pc[t] \in {"drainWaitReq", "drainFinish"}

\* C37: once the drain has closed the tx engine, no request that operates
\* on a transaction is admitted until the state is StateServing again.
\* The code admits them: the state stays StateShuttingDown, which admits
\* requests with allowOnShutdown, until the drain has finished.
C37_NoTxRequestAfterTeClose ==
  [][TxEngineClosedByDrain /\ AdmStep /\ IssuedWithAllowOnShutdown(last'.call)
       => last'.err /= OK]_vars

\* ------------------------------------------------------------------ C38
\* The pairs (role, serving) that the controller held: IsServing of each
\* pair of held (tsv.lameduck is 0 wherever held is kept).
HeldServing == { <<p[1], stateName(p[2]) = "SERVING">> : p \in held }

\* The pair a health response carries.
SnapshotPair(shr) == <<shr.Target.TabletType, shr.Serving>>

\* C38: the pair (target role, serving) of every snapshot that
\* BroadcastHealth built or stored is a pair that the controller held at one
\* moment, also when SetServingType or StopService run beside it.
C38_SnapshotHeldAtOneInstant ==
  /\ bh.shr /= NilResponse => SnapshotPair(bh.shr) \in HeldServing
  /\ lastStreamHealthResponse /= NilResponse
       => SnapshotPair(lastStreamHealthResponse) \in HeldServing

\* ------------------------------------------------------------------ C39
\* The StreamHealth call of c has kept up: it is subscribed, no broadcast
\* is running, and its callback has been given all that was sent to its
\* channel.
KeptUp(c) ==
  /\ sh[c].pc = "streaming"
  /\ bh.pc = "idle"
  /\ Channel(c) = <<>>
  /\ sh[c].received /= <<>>

\* C39: a StreamHealth caller whose callback keeps up misses no update:
\* from the first snapshot it was given on, it has been given every
\* snapshot that was broadcast, in order, up to the last one.
C39_KeepingUpMissesNoUpdate ==
  \A c \in StreamCallers :
    KeptUp(c) =>
      sh[c].received = Broadcasts(sh[c].received[1].Serial, bh.count)

\* ------------------------------------------------------------------ C40
\* An attempt that may be followed by another: inner returned the server
\* error QUERY_NOT_SERVED or, in a call that is not streaming,
\* INTERNAL_ERROR; the call is in no transaction; and the context was not
\* done when the attempt ended.
MayRetry(a) ==
  /\ a.err.kind = "ServerError"
  /\ \/ a.err.ServerCode = QUERY_NOT_SERVED
     \/ a.err.ServerCode = INTERNAL_ERROR /\ ~wr.isStreaming
  /\ ~wr.inTransaction
  /\ ~a.done

\* C40: withRetry calls inner at most retryCount+1 times; every attempt
\* that is followed by another failed with a retryable error, outside a
\* transaction and with a context that was not done; and a call that
\* returns after fewer than retryCount+1 attempts stopped at an attempt
\* that succeeded or may not be retried.
C40_WithRetry ==
  LET n == Len(wr.attempts) IN
    /\ n =< wr.retryCount + 1
    /\ \A k \in 1..n :
         (k < n \/ wr.attempts[k].retried) => MayRetry(wr.attempts[k])
    /\ \A k \in 1..n :
         (k < n \/ wr.pc \in {"for", "returned"})
           => (wr.attempts[k].retried <=> MayRetry(wr.attempts[k]))
    /\ (wr.pc = "returned" /\ n > 0 /\ n < wr.retryCount + 1)
         => ~MayRetry(wr.attempts[n])

\* A call was retried twice, after INTERNAL_ERROR and after
\* QUERY_NOT_SERVED, and its third attempt succeeded.
C40_Witness ==
  /\ wr.pc = "returned"
  /\ wr.retryCount = 2
  /\ Len(wr.attempts) = 3
  /\ wr.attempts[1].err.ServerCode = INTERNAL_ERROR
  /\ wr.attempts[2].err.ServerCode = QUERY_NOT_SERVED
  /\ wr.attempts[3].err = NilError

\* A call stopped at its second attempt because the context was done,
\* though the error was QUERY_NOT_SERVED and attempts were left.
C40_WitnessCtxDone ==
  /\ wr.pc = "returned"
  /\ wr.retryCount = 2
  /\ Len(wr.attempts) = 2
  /\ wr.attempts[2].err.ServerCode = QUERY_NOT_SERVED
  /\ wr.attempts[2].done
  /\ ~wr.inTransaction

====
